---- MODULE Spec2Model ----
(***************************************************************************)
(* Voxel world of bevy-craft: chunk store and streaming scheduler          *)
(* (voxel/world.rs, voxel/systems/streaming.rs), block interaction         *)
(* (voxel/systems/interaction.rs) and falling-block simulation             *)
(* (voxel/systems/falling.rs, voxel/falling_state.rs).                     *)
(*                                                                         *)
(* Coordinates are triples <<x, y, z>>.  Lengths are fixed-point: one      *)
(* length unit is BLOCK_SIZE / 20, so every collider and ray quantity of   *)
(* the source is an integer.  The geometric program constants are scaled   *)
(* down (CHUNK_SIZE 16 -> 2, VIEW_DISTANCE 8 -> 1, LOADS_PER_FRAME 2 -> 1,  *)
(* MAX_IN_FLIGHT 8 -> 2, RAY_MAX_DISTANCE_BLOCKS 10 -> 4) so that the      *)
(* state space is finite and small and both build caps are reached.        *)
(***************************************************************************)
EXTENDS Integers, Sequences, FiniteSets, TLC

----------------------------------------------------------------------------
(* Program constants *)

CHUNK_SIZE == 2

BLOCK_SIZE == 20

VIEW_DISTANCE == 1

\* Number of streamed vertical layers; the crate root that defines it is not
\* among the sources (it is imported at voxel/world.rs:8).  One layer here.
VERTICAL_CHUNK_LAYERS == 1

LOADS_PER_FRAME == 1

MAX_IN_FLIGHT == 2

RAY_STEP == 4

RAY_MAX_DISTANCE_BLOCKS == 4

\* Gravity in length units per time quantum squared: one quantum of the
\* frame delta is the time in which GRAVITY * dt * dt is half a block
GRAVITY == 10

MAX_PROPAGATION_STEPS_PER_FRAME == 256

\* Interaction cooldown (0.2 s) and the initial "ready" timestamp (-1.0 s),
\* in clock ticks of 0.1 s
INTERACTION_COOLDOWN_SECS == 2

READY_TIME == -10

(* Bounds of the model *)

\* Largest number of simultaneously falling entities
MaxFalling == 2

\* Last clock tick
MaxTime == 2

\* Blocks below world height 0 that a falling entity is followed
MaxVoidDepth == 1

----------------------------------------------------------------------------
(* Integer helpers *)

Abs(n) == IF n < 0 THEN -n ELSE n

Add3(a, b) == <<a[1] + b[1], a[2] + b[2], a[3] + b[3]>>

Neg3(a) == <<-a[1], -a[2], -a[3]>>

SeqToSet(s) == {s[i] : i \in 1..Len(s)}

\* Sequence s without the elements that fail Keep, order preserved
\* (VecDeque::retain).
RECURSIVE Retain(_, _)
Retain(s, keep) ==
  IF s = <<>> THEN <<>>
  ELSE IF Head(s) \in keep THEN <<Head(s)>> \o Retain(Tail(s), keep)
       ELSE Retain(Tail(s), keep)

\* All orders in which the elements of a finite set can be iterated
\* (iteration order of a HashSet / HashMap is unspecified).
Orders(S) ==
  {s \in [1..Cardinality(S) -> S] : \A i, j \in 1..Cardinality(S) : i # j => s[i] # s[j]}

----------------------------------------------------------------------------
(* Blocks: voxel/block_chunk.rs, voxel/block_defs.rs *)

Kinds == {"Air", "Dirt", "DirtWithGrass", "Sand"}

Facings == {"PosX", "NegX", "PosY", "NegY", "PosZ", "NegZ"}

Block(kind, front) == [kind |-> kind, front |-> front]

air == Block("Air", "PosZ")

dirt == Block("Dirt", "PosZ")

dirt_with_grass == Block("DirtWithGrass", "PosZ")

sand == Block("Sand", "PosZ")

\* BlockDef table: solid, stable, interactable, allow_vertical_front
def_for_block_kind(kind) ==
  CASE kind = "Air" ->
         [solid |-> FALSE, stable |-> FALSE, interactable |-> FALSE, allow_vertical_front |-> FALSE]
    [] kind = "Dirt" ->
         [solid |-> TRUE, stable |-> TRUE, interactable |-> TRUE, allow_vertical_front |-> TRUE]
    [] kind = "DirtWithGrass" ->
         [solid |-> TRUE, stable |-> TRUE, interactable |-> TRUE, allow_vertical_front |-> FALSE]
    [] kind = "Sand" ->
         [solid |-> TRUE, stable |-> FALSE, interactable |-> TRUE, allow_vertical_front |-> TRUE]

is_solid(b) == def_for_block_kind(b.kind).solid

is_stable(b) == def_for_block_kind(b.kind).stable

\* An interactability test that takes every block, Air included
is_interactable_or_air(b) == b.kind \in {"Air", "Dirt", "DirtWithGrass", "Sand"}

is_interactable(b) == def_for_block_kind(b.kind).interactable

\* Facing::from_direction on an integer direction vector
from_direction(d) ==
  IF d[1] * d[1] + d[2] * d[2] + d[3] * d[3] = 0 THEN "PosZ"
  ELSE IF Abs(d[1]) >= Abs(d[2]) /\ Abs(d[1]) >= Abs(d[3])
       THEN (IF d[1] >= 0 THEN "PosX" ELSE "NegX")
  ELSE IF Abs(d[2]) >= Abs(d[1]) /\ Abs(d[2]) >= Abs(d[3])
       THEN (IF d[2] >= 0 THEN "PosY" ELSE "NegY")
  ELSE IF d[3] >= 0 THEN "PosZ" ELSE "NegZ"

\* Facing::from_horizontal_direction
from_horizontal_direction(d) ==
  IF Abs(d[1]) >= Abs(d[3])
  THEN (IF d[1] >= 0 THEN "PosX" ELSE "NegX")
  ELSE IF d[3] >= 0 THEN "PosZ" ELSE "NegZ"

\* A facing update that lets every kind face up or down
with_front_from_any_direction(b, d) ==
  IF b.kind = "Air" THEN b ELSE Block(b.kind, from_direction(d))

\* Block::with_front_from_direction
with_front_from_direction(b, d) ==
  LET front == IF def_for_block_kind(b.kind).allow_vertical_front
               THEN from_direction(d)
               ELSE from_horizontal_direction(d)
  IN IF b.kind = "Air" THEN b ELSE Block(b.kind, front)

\* Block::world_translation: minimum corner of a block cell, in length units
world_translation(p) == <<p[1] * BLOCK_SIZE, p[2] * BLOCK_SIZE, p[3] * BLOCK_SIZE>>

\* Block::world_coord_from_position: floor of position / BLOCK_SIZE per axis
\* (\div rounds toward minus infinity)
world_coord_from_position(pos) ==
  <<pos[1] \div BLOCK_SIZE, pos[2] \div BLOCK_SIZE, pos[3] \div BLOCK_SIZE>>

----------------------------------------------------------------------------
(* Chunks: voxel/block_chunk.rs *)

Locals == (0..(CHUNK_SIZE - 1)) \X (0..(CHUNK_SIZE - 1)) \X (0..(CHUNK_SIZE - 1))

in_bounds(l) ==
  /\ l[1] \in 0..(CHUNK_SIZE - 1)
  /\ l[2] \in 0..(CHUNK_SIZE - 1)
  /\ l[3] \in 0..(CHUNK_SIZE - 1)

\* An index without the strides of the Y and Z axes
index_without_strides(l) == l[1] + l[2] + l[3]

\* Chunk::index: position of a local coordinate in the flat block vector
\* (counted from 0; the vector of the model is indexed from 1)
index(l) == l[1] + l[2] * CHUNK_SIZE + l[3] * CHUNK_SIZE * CHUNK_SIZE

get_block(chunk, l) == IF ~in_bounds(l) THEN air ELSE chunk[index(l) + 1]

set_block(chunk, l, b) ==
  IF ~in_bounds(l) THEN chunk ELSE [chunk EXCEPT ![index(l) + 1] = b]

\* Chunk::new_empty: CHUNK_SIZE^3 air blocks
new_empty == [i \in 1..(CHUNK_SIZE * CHUNK_SIZE * CHUNK_SIZE) |-> air]

\* TerrainNoise::height_at: a pure function of the column, clamped to
\* 1 .. CHUNK_SIZE * 2 - 1.  The noise itself is replaced by a fixed table.
height_at(x, z) ==
  LET raw == 1 + ((x + 2 * z) % 3)
  IN IF raw < 1 THEN 1
     ELSE IF raw > CHUNK_SIZE * 2 - 1 THEN CHUNK_SIZE * 2 - 1 ELSE raw

\* Chunk::new_terrain: each in-bounds local is visited once and written
\* with set_block, so the cell at a position holds the block of the local
\* with that index
new_terrain(coord) ==
  [i \in 1..(CHUNK_SIZE * CHUNK_SIZE * CHUNK_SIZE) |->
     LET l == CHOOSE l \in Locals : index(l) + 1 = i
         height == height_at(coord[1] * CHUNK_SIZE + l[1], coord[3] * CHUNK_SIZE + l[3])
         world_y == coord[2] * CHUNK_SIZE + l[2]
     IN IF world_y > height THEN air
        ELSE IF world_y = height THEN dirt_with_grass
        ELSE dirt]

\* A layer test that takes every layer for a streaming layer
is_any_layer(coord) == coord[2] \in Int

is_streaming_layer(coord) == coord[2] \in 0..(VERTICAL_CHUNK_LAYERS - 1)

new_streaming(coord) ==
  IF coord[2] \in 0..(VERTICAL_CHUNK_LAYERS - 1) THEN new_terrain(coord) ELSE new_empty

\* ChunkData::new: voxels plus the mesh handle's content.  The mesh is a pure
\* function of the voxels it was built from (build_chunk_mesh_data), so it is
\* represented by those voxels.
ChunkData(chunk, meshSrc) == [chunk |-> chunk, mesh |-> meshSrc]

----------------------------------------------------------------------------
(* World store: voxel/world_state.rs, voxel/world.rs *)
(* A store value w is a record                                             *)
(*   chunks    : loaded map, chunk coordinate -> ChunkData                 *)
(*   needed    : desired streaming window                                  *)
(*   pending   : FIFO of coordinates waiting for a build                   *)
(*   in_flight : coordinates with an outstanding build task (the keys of   *)
(*               the in-flight map; a task's output is a pure function of  *)
(*               its coordinate)                                           *)
(*   log       : the steps taken by the handler that is running, each      *)
(*               <<step name, coordinates affected>>: "sync" (queue        *)
(*               entries dropped), "cancel" (build tasks dropped),         *)
(*               "enqueue", "evict", "start", "merge", "discard",          *)
(*               "ensure", "break", "place", "detach", "land"              *)

Logged(w, step, coords) == [w EXCEPT !.log = Append(@, <<step, coords>>)]

\* The coordinates the log l records for the step named `step`
LogOf(l, step) == UNION {l[i][2] : i \in {j \in 1..Len(l) : l[j][1] = step}}

\* Division and remainder that round toward zero (Rust's / and %)
TruncDiv(a, b) == IF a >= 0 THEN a \div b ELSE -((-a) \div b)

TruncRem(a, b) == a - b * TruncDiv(a, b)

\* A split of a world coordinate by truncating division
world_to_chunk_local_truncating(p) ==
  [chunk |-> <<TruncDiv(p[1], CHUNK_SIZE), TruncDiv(p[2], CHUNK_SIZE),
               TruncDiv(p[3], CHUNK_SIZE)>>,
   local |-> <<TruncRem(p[1], CHUNK_SIZE), TruncRem(p[2], CHUNK_SIZE),
               TruncRem(p[3], CHUNK_SIZE)>>]

\* WorldState::world_to_chunk_local: Euclidean division and remainder by
\* CHUNK_SIZE (a positive divisor, so \div and % are div_euclid / rem_euclid)
world_to_chunk_local(p) ==
  [chunk |-> <<p[1] \div CHUNK_SIZE, p[2] \div CHUNK_SIZE, p[3] \div CHUNK_SIZE>>,
   local |-> <<p[1] % CHUNK_SIZE, p[2] % CHUNK_SIZE, p[3] % CHUNK_SIZE>>]

NoBlock == [kind |-> "None"]

\* A read that takes a missing chunk for a chunk of Air
get_block_world_or_air(w, p) ==
  LET cl == world_to_chunk_local(p)
  IN IF cl.chunk \in DOMAIN w.chunks
     THEN get_block(w.chunks[cl.chunk].chunk, cl.local)
     ELSE air

\* WorldState::get_block_world: NoBlock stands for Option::None
get_block_world(w, p) ==
  LET cl == world_to_chunk_local(p)
  IN IF cl.chunk \in DOMAIN w.chunks
     THEN get_block(w.chunks[cl.chunk].chunk, cl.local)
     ELSE NoBlock

\* WorldState::is_solid_at_world_pos
is_solid_at_world_pos(w, p) ==
  LET b == get_block_world(w, p)
  IN b # NoBlock /\ is_solid(b)

\* WorldState::set_block_world_loaded: writes only into a loaded chunk
set_block_world_loaded(w, p, b) ==
  LET cl == world_to_chunk_local(p)
  IN IF cl.chunk \in DOMAIN w.chunks
     THEN [w EXCEPT !.chunks[cl.chunk].chunk = set_block(@, cl.local, b)]
     ELSE w

\* WorldState::insert_loaded_chunk: HashMap::insert, replacing any entry
insert_loaded_chunk(w, coord, chunk) ==
  [w EXCEPT !.chunks =
     [c \in (DOMAIN w.chunks) \cup {coord} |->
        IF c = coord THEN ChunkData(chunk, chunk) ELSE w.chunks[c]]]

\* WorldState::ensure_chunk: generate the chunk synchronously if not loaded
ensure_chunk(w, coord) ==
  IF coord \in DOMAIN w.chunks THEN w
  ELSE Logged(insert_loaded_chunk(w, coord, new_streaming(coord)), "ensure", {coord})

\* WorldState::set_block_world_ensured (also settle_falling_block)
set_block_world_ensured(w, p, b) ==
  set_block_world_loaded(ensure_chunk(w, world_to_chunk_local(p).chunk), p, b)

\* WorldState::rebuild_chunk_mesh: the mesh is rebuilt from the current voxels
rebuild_chunk_mesh(w, coord) ==
  IF coord \in DOMAIN w.chunks
  THEN [w EXCEPT !.chunks[coord].mesh = w.chunks[coord].chunk]
  ELSE w

RECURSIVE rebuild_touched_chunk_meshes(_, _)
rebuild_touched_chunk_meshes(w, touched) ==
  IF touched = {} THEN w
  ELSE LET c == CHOOSE c \in touched : TRUE
       IN rebuild_touched_chunk_meshes(rebuild_chunk_mesh(w, c), touched \ {c})

\* WorldState::unload_chunk
unload_chunk(w, coord) ==
  IF coord \in DOMAIN w.chunks
  THEN [w EXCEPT !.chunks = [c \in (DOMAIN w.chunks) \ {coord} |-> w.chunks[c]]]
  ELSE w

----------------------------------------------------------------------------
(* Streaming scheduler: voxel/world.rs, voxel/systems/streaming.rs *)

\* WorldState::chunk_center_from_camera_pos: X/Z floored by the chunk width,
\* Y fixed at 0
chunk_center_from_camera_pos(pos) ==
  <<pos[1] \div (CHUNK_SIZE * BLOCK_SIZE), 0, pos[3] \div (CHUNK_SIZE * BLOCK_SIZE)>>

\* A window that takes both ends of each horizontal range
build_needed_chunk_set_closed(center) ==
  {Add3(center, <<dx, dy, dz>>) :
     dx \in (-VIEW_DISTANCE)..VIEW_DISTANCE,
     dy \in 0..(VERTICAL_CHUNK_LAYERS - 1),
     dz \in (-VIEW_DISTANCE)..VIEW_DISTANCE}

\* A window that leaves out the corner columns of the square
build_needed_chunk_cross(center) ==
  {Add3(center, o) :
     o \in {<<dx, dy, dz>> \in ((-VIEW_DISTANCE)..(VIEW_DISTANCE - 1))
                                 \X (0..(VERTICAL_CHUNK_LAYERS - 1))
                                 \X ((-VIEW_DISTANCE)..(VIEW_DISTANCE - 1)) :
               dx = 0 \/ dz = 0}}

\* WorldState::build_needed_chunk_set: the ranges are half-open,
\* -VIEW_DISTANCE..VIEW_DISTANCE and 0..VERTICAL_CHUNK_LAYERS
build_needed_chunk_set(center) ==
  {Add3(center, <<dx, dy, dz>>) :
     dx \in (-VIEW_DISTANCE)..(VIEW_DISTANCE - 1),
     dy \in 0..(VERTICAL_CHUNK_LAYERS - 1),
     dz \in (-VIEW_DISTANCE)..(VIEW_DISTANCE - 1)}

\* A sync that leaves the build tasks outside the new window running
sync_needed_set_keeping_tasks(w, needed) ==
  IF needed = w.needed THEN Logged(Logged(w, "sync", {}), "cancel", {})
  ELSE Logged(Logged([w EXCEPT !.needed = needed,
                               !.pending = Retain(w.pending, needed)],
                     "sync", SeqToSet(w.pending) \ needed),
              "cancel", {})

\* A sync that drops the build tasks outside the window but leaves the
\* pending queue as it is
sync_needed_set_keeping_pending(w, needed) ==
  IF needed = w.needed THEN Logged(Logged(w, "sync", {}), "cancel", {})
  ELSE Logged(Logged([w EXCEPT !.needed = needed,
                               !.in_flight = @ \cap needed],
                     "sync", {}),
              "cancel", w.in_flight \ needed)

\* WorldState::sync_needed_set: on a change of the window, replace it and
\* drop the pending and in-flight entries outside it
sync_needed_set(w, needed) ==
  IF needed = w.needed THEN Logged(Logged(w, "sync", {}), "cancel", {})
  ELSE Logged(Logged([w EXCEPT !.needed = needed,
                               !.pending = Retain(w.pending, needed),
                               !.in_flight = @ \cap needed],
                     "sync", SeqToSet(w.pending) \ needed),
              "cancel", w.in_flight \ needed)

\* WorldState::is_chunk_scheduled_or_loaded
is_chunk_scheduled_or_loaded(w, coord) ==
  \/ coord \in DOMAIN w.chunks
  \/ coord \in SeqToSet(w.pending)
  \/ coord \in w.in_flight

\* An enqueue test that forgets the loaded map
MissingChunksIgnoringLoaded(w) ==
  {c \in w.needed : c \notin SeqToSet(w.pending) /\ c \notin w.in_flight}

\* The coordinates enqueue_needed_chunks appends
MissingChunks(w) == {c \in w.needed : ~is_chunk_scheduled_or_loaded(w, c)}

\* An enqueue that leaves out the coordinate it visits last
enqueue_all_but_last(w, order) ==
  LET kept == IF order = <<>> THEN <<>> ELSE SubSeq(order, 1, Len(order) - 1)
  IN Logged([w EXCEPT !.pending = @ \o kept], "enqueue", SeqToSet(kept))

\* WorldState::enqueue_needed_chunks, for one iteration order of the needed set
enqueue_needed_chunks(w, order) ==
  Logged([w EXCEPT !.pending = @ \o order], "enqueue", SeqToSet(order))

\* A collection that spares the chunks next to the window
collect_unneeded_beyond_margin(w) ==
  {c \in DOMAIN w.chunks :
     /\ is_streaming_layer(c)
     /\ \A n \in w.needed : Abs(c[1] - n[1]) + Abs(c[2] - n[2]) + Abs(c[3] - n[3]) > 1}

\* WorldState::collect_unneeded_loaded_chunks
collect_unneeded_loaded_chunks(w) ==
  {c \in DOMAIN w.chunks : is_streaming_layer(c) /\ c \notin w.needed}

\* The eviction loop of chunk_loading_system
RECURSIVE UnloadAll(_, _)
UnloadAll(w, coords) ==
  IF coords = {} THEN w
  ELSE LET c == CHOOSE c \in coords : TRUE
       IN UnloadAll(unload_chunk(w, c), coords \ {c})

EvictUnneeded(w) ==
  LET to_remove == collect_unneeded_loaded_chunks(w)
  IN Logged(UnloadAll(w, to_remove), "evict", to_remove)

\* A start test without the per-frame budget
can_start_ignoring_frame_budget(w, started_this_frame) ==
  /\ Cardinality(w.in_flight) < MAX_IN_FLIGHT
  /\ w.pending # <<>>

\* A start test that lets one build run at a time
can_start_one_at_a_time(w, started_this_frame) ==
  /\ started_this_frame < LOADS_PER_FRAME
  /\ w.in_flight = {}
  /\ w.pending # <<>>

\* WorldState::can_start_chunk_build
can_start_chunk_build(w, started_this_frame) ==
  /\ started_this_frame < LOADS_PER_FRAME
  /\ Cardinality(w.in_flight) < MAX_IN_FLIGHT
  /\ w.pending # <<>>

\* WorldState::spawn_chunk_build_tasks: the while loop, started counts the
\* builds begun in this call
RECURSIVE SpawnLoop(_, _)
SpawnLoop(w, started) ==
  IF ~can_start_chunk_build(w, started) THEN w
  ELSE LET coord == Head(w.pending)
       IN SpawnLoop([w EXCEPT !.pending = Tail(@), !.in_flight = @ \cup {coord}],
                    started + 1)

\* A spawn pass that starts no build
spawn_chunk_build_tasks_never(w) == Logged(w, "start", {})

spawn_chunk_build_tasks(w) ==
  LET w2 == SpawnLoop(w, 0)
  IN Logged(w2, "start", w2.in_flight \ w.in_flight)

\* A face-neighbour test that also takes the cells across an edge
is_face_or_edge_neighbor(center, candidate) ==
  Abs(candidate[1] - center[1]) + Abs(candidate[2] - center[2])
    + Abs(candidate[3] - center[3]) \in {1, 2}

\* An acceptance test with the window check inverted
should_accept_unneeded_chunk(w, coord) == coord \notin w.needed

\* WorldState::should_accept_finished_chunk
should_accept_finished_chunk(w, coord) == coord \in w.needed

\* WorldState::apply_finished_chunk_results
RECURSIVE apply_finished_chunk_results(_, _)
apply_finished_chunk_results(w, finished) ==
  IF finished = {} THEN w
  ELSE LET c == CHOOSE c \in finished : TRUE
           w2 == IF ~should_accept_finished_chunk(w, c) THEN w
                 ELSE insert_loaded_chunk(w, c, new_streaming(c))
       IN apply_finished_chunk_results(w2, finished \ {c})

\* WorldState::collect_finished_chunk_tasks followed by
\* apply_finished_chunk_results: poll every in-flight task once; `finished`
\* are the tasks whose poll returns an output.  They leave the in-flight map
\* and their outputs are merged.
PollAndMerge(w, finished) ==
  LET w1 == [w EXCEPT !.in_flight = @ \ finished]
      w2 == apply_finished_chunk_results(w1, finished)
  IN Logged(Logged(w2, "merge", {c \in finished : should_accept_finished_chunk(w1, c)}),
            "discard", {c \in finished : ~should_accept_finished_chunk(w1, c)})

\* A tick that starts the new builds before the eviction pass
TickScheduleStartFirst(w, pos, order) ==
  LET w1 == sync_needed_set(w, build_needed_chunk_set(chunk_center_from_camera_pos(pos)))
      w2 == enqueue_needed_chunks(w1, order)
      w3 == spawn_chunk_build_tasks(w2)
  IN EvictUnneeded(w3)

\* chunk_loading_system up to the start of new builds, for a camera at `pos`;
\* `order` is the iteration order of the needed set in enqueue_needed_chunks
TickSchedule(w, pos, order) ==
  LET w1 == sync_needed_set(w, build_needed_chunk_set(chunk_center_from_camera_pos(pos)))
      w2 == enqueue_needed_chunks(w1, order)
      w3 == EvictUnneeded(w2)
  IN spawn_chunk_build_tasks(w3)

\* The iteration orders enqueue_needed_chunks can take for a camera at `pos`
EnqueueOrders(w, pos) ==
  Orders(MissingChunks(
    sync_needed_set(w, build_needed_chunk_set(chunk_center_from_camera_pos(pos)))))

----------------------------------------------------------------------------
(* Falling propagation queue: voxel/falling_state.rs *)
(* A queue value q is a record [pending : sequence, scheduled : set].      *)

\* An enqueue that does not consult the scheduled set
enqueue_unconditionally(q, pos) ==
  [pending |-> Append(q.pending, pos), scheduled |-> q.scheduled \cup {pos}]

\* FallingPropagationQueue::enqueue
enqueue(q, pos) ==
  IF pos \in q.scheduled THEN q
  ELSE [pending |-> Append(q.pending, pos), scheduled |-> q.scheduled \cup {pos}]

\* A propagation that also reaches the cell below
enqueue_with_neighbors_and_below(q, pos) ==
  enqueue(enqueue(enqueue(enqueue(enqueue(enqueue(enqueue(q, pos),
    Add3(pos, <<1, 0, 0>>)),
    Add3(pos, <<-1, 0, 0>>)),
    Add3(pos, <<0, 1, 0>>)),
    Add3(pos, <<0, 0, 1>>)),
    Add3(pos, <<0, 0, -1>>)),
    Add3(pos, <<0, -1, 0>>))

\* FallingPropagationQueue::enqueue_with_neighbors: the position, its four
\* horizontal neighbours and the one above
enqueue_with_neighbors(q, pos) ==
  enqueue(enqueue(enqueue(enqueue(enqueue(enqueue(q, pos),
    Add3(pos, <<1, 0, 0>>)),
    Add3(pos, <<-1, 0, 0>>)),
    Add3(pos, <<0, 1, 0>>)),
    Add3(pos, <<0, 0, 1>>)),
    Add3(pos, <<0, 0, -1>>))

\* FallingPropagationQueue::pop on a non-empty queue: the queue that remains
pop(q) == [pending |-> Tail(q.pending), scheduled |-> q.scheduled \ {Head(q.pending)}]

----------------------------------------------------------------------------
(* Interaction engine: voxel/world.rs, voxel/systems/interaction.rs *)

NoCell == <<>>

\* Number of samples of a ray: (RAY_MAX_DISTANCE_BLOCKS * BLOCK_SIZE / RAY_STEP) as i32
RaySteps == (RAY_MAX_DISTANCE_BLOCKS * BLOCK_SIZE) \div RAY_STEP

\* Cell of the i-th sample of the ray from `pos` along dir / norm, where the
\* integer vector dir has length norm: origin + direction * (i * RAY_STEP)
RaySample(pos, dir, norm, i) ==
  <<(pos[1] * norm + dir[1] * i * RAY_STEP) \div (BLOCK_SIZE * norm),
    (pos[2] * norm + dir[2] * i * RAY_STEP) \div (BLOCK_SIZE * norm),
    (pos[3] * norm + dir[3] * i * RAY_STEP) \div (BLOCK_SIZE * norm)>>

\* The for loop of raymarch_hit_and_last_empty from sample i on
RECURSIVE RayLoop(_, _, _, _, _, _)
RayLoop(w, pos, dir, norm, i, last_empty) ==
  IF i >= RaySteps THEN [hit |-> NoCell, last_empty |-> last_empty]
  ELSE LET block_world == RaySample(pos, dir, norm, i)
           cl == world_to_chunk_local(block_world)
       IN IF cl.chunk \notin DOMAIN w.chunks
          THEN RayLoop(w, pos, dir, norm, i + 1, block_world)
          ELSE IF ~in_bounds(cl.local)
          THEN RayLoop(w, pos, dir, norm, i + 1, block_world)
          ELSE IF is_solid(get_block(w.chunks[cl.chunk].chunk, cl.local))
          THEN [hit |-> block_world, last_empty |-> last_empty]
          ELSE RayLoop(w, pos, dir, norm, i + 1, block_world)

\* A march that skips the sample at the ray's origin
raymarch_from_second_sample(w, pos, dir, norm) == RayLoop(w, pos, dir, norm, 1, NoCell)

\* WorldState::raymarch_hit_and_last_empty
raymarch_hit_and_last_empty(w, pos, dir, norm) == RayLoop(w, pos, dir, norm, 0, NoCell)

\* is_face_neighbor
is_face_neighbor(center, candidate) ==
  Abs(candidate[1] - center[1]) + Abs(candidate[2] - center[2])
    + Abs(candidate[3] - center[3]) = 1

NoPlayer == <<>>

\* An overlap test that also takes boxes that only touch
intersects_or_touches_block(half_size, player_pos, block_world) ==
  \A a \in 1..3 :
    /\ player_pos[a] - half_size[a] <= block_world[a] * BLOCK_SIZE + BLOCK_SIZE
    /\ player_pos[a] + half_size[a] >= block_world[a] * BLOCK_SIZE

\* Player::intersects_block: strict overlap of the collider box around
\* player_pos with the cell's box on all three axes
intersects_block(half_size, player_pos, block_world) ==
  LET block_min == world_translation(block_world)
  IN \A a \in 1..3 :
       /\ player_pos[a] - half_size[a] < block_min[a] + BLOCK_SIZE
       /\ player_pos[a] + half_size[a] > block_min[a]

\* WorldState::break_block: [ok, w]
break_block(w, target_world) ==
  LET target_block == get_block_world(w, target_world)
  IN IF target_block = NoBlock THEN [ok |-> FALSE, w |-> w]
     ELSE IF ~is_interactable(target_block) THEN [ok |-> FALSE, w |-> w]
     ELSE [ok |-> TRUE,
           w |-> rebuild_chunk_mesh(set_block_world_loaded(w, target_world, air),
                                    world_to_chunk_local(target_world).chunk)]

\* WorldState::place_block: [ok, w].  player is NoPlayer or
\* [pos, half_size]; forward is the camera's forward vector
place_block(w, player, forward, target_world, block) ==
  IF player # NoPlayer /\ intersects_block(player.half_size, player.pos, target_world)
  THEN [ok |-> FALSE, w |-> w]
  ELSE LET block_to_place == IF player # NoPlayer
                             THEN with_front_from_direction(block, Neg3(forward))
                             ELSE block
       IN [ok |-> TRUE,
           w |-> rebuild_chunk_mesh(set_block_world_ensured(w, target_world, block_to_place),
                                    world_to_chunk_local(target_world).chunk)]

----------------------------------------------------------------------------
(* Falling blocks: voxel/falling_state.rs, voxel/systems/falling.rs *)
(* A falling entity is [translation, block, velocity_y].                   *)

\* A spawn that forgets the block's facing
FallingBlockDefaultFront(translation, block) ==
  [translation |-> translation, block |-> Block(block.kind, "PosZ"), velocity_y |-> 0]

\* FallingBlock::new together with the Transform it is spawned with
FallingBlock(translation, block) ==
  [translation |-> translation, block |-> block, velocity_y |-> 0]

\* FallingBlock::integrate_vertical: the velocity after the step
integrate_velocity(e, dt) == e.velocity_y - GRAVITY * dt

\* A probe that takes the supporting cell itself for the landing cell
landing_probe_into_support(next) ==
  LET half == BLOCK_SIZE \div 2
      world_x == (next[1] + half) \div BLOCK_SIZE
      world_z == (next[3] + half) \div BLOCK_SIZE
      below_y == (next[2] \div BLOCK_SIZE) - 1
  IN [below |-> <<world_x, below_y, world_z>>, landing |-> <<world_x, below_y, world_z>>]

\* FallingBlock::landing_probe
landing_probe(next) ==
  LET half == BLOCK_SIZE \div 2
      world_x == (next[1] + half) \div BLOCK_SIZE
      world_z == (next[3] + half) \div BLOCK_SIZE
      below_y == (next[2] \div BLOCK_SIZE) - 1
  IN [below |-> <<world_x, below_y, world_z>>, landing |-> <<world_x, below_y + 1, world_z>>]

\* should_start_falling
\* A classification that lets every solid block fall
should_start_falling_any_solid(w, world_pos, block) ==
  IF ~is_solid(block) THEN FALSE
  ELSE LET below == Add3(world_pos, <<0, -1, 0>>)
       IN below[2] >= 0 /\ ~is_solid_at_world_pos(w, below)

should_start_falling(w, world_pos, block) ==
  IF ~is_solid(block) \/ is_stable(block) THEN FALSE
  ELSE LET below == Add3(world_pos, <<0, -1, 0>>)
       IN below[2] >= 0 /\ ~is_solid_at_world_pos(w, below)

\* First loop of spawn_falling_blocks_system: pop at most
\* MAX_PROPAGATION_STEPS_PER_FRAME positions, collect those that detach
RECURSIVE ScanQueue(_, _, _, _)
ScanQueue(w, q, n, to_spawn) ==
  IF n >= MAX_PROPAGATION_STEPS_PER_FRAME \/ q.pending = <<>>
  THEN [q |-> q, to_spawn |-> to_spawn]
  ELSE LET world_pos == Head(q.pending)
           block == get_block_world(w, world_pos)
       IN IF block # NoBlock /\ should_start_falling(w, world_pos, block)
          THEN ScanQueue(w, pop(q), n + 1, Append(to_spawn, <<world_pos, block>>))
          ELSE ScanQueue(w, pop(q), n + 1, to_spawn)

\* Second loop of spawn_falling_blocks_system: clear the cell, spawn the
\* entity, re-enqueue the neighbourhood.  s is [w, q, falling, touched].
RECURSIVE DetachAll(_, _)
DetachAll(s, to_spawn) ==
  IF to_spawn = <<>> THEN s
  ELSE LET world_pos == Head(to_spawn)[1]
           block == Head(to_spawn)[2]
           cl == world_to_chunk_local(world_pos)
       IN IF cl.chunk \notin DOMAIN s.w.chunks THEN DetachAll(s, Tail(to_spawn))
          ELSE DetachAll(
                 [w |-> Logged([s.w EXCEPT !.chunks[cl.chunk].chunk = set_block(@, cl.local, air)],
                               "detach", {world_pos}),
                  q |-> enqueue_with_neighbors(s.q, world_pos),
                  falling |-> Append(s.falling, FallingBlock(world_translation(world_pos), block)),
                  touched |-> s.touched \cup {cl.chunk}],
                 Tail(to_spawn))

\* spawn_falling_blocks_system: [w, q, falling, to_spawn]
spawn_falling_blocks_system(w, q, falling) ==
  LET scan == ScanQueue(w, q, 0, <<>>)
      s == DetachAll([w |-> w, q |-> scan.q, falling |-> falling, touched |-> {}],
                     scan.to_spawn)
  IN IF scan.to_spawn = <<>>
     THEN [w |-> w, q |-> scan.q, falling |-> falling, to_spawn |-> <<>>]
     ELSE [w |-> rebuild_touched_chunk_meshes(s.w, s.touched), q |-> s.q,
           falling |-> s.falling, to_spawn |-> scan.to_spawn]

\* The query loop of update_falling_blocks_system over the entities `ents`
\* in query order.  s is [w, kept, touched, landed]: kept are the entities
\* that keep falling, landed the cells written.
RECURSIVE FallLoop(_, _, _)
FallLoop(s, ents, dt) ==
  IF ents = <<>> THEN s
  ELSE LET e == Head(ents)
           v == integrate_velocity(e, dt)
           next == <<e.translation[1], e.translation[2] + v * dt, e.translation[3]>>
           probe == landing_probe(next)
       IN IF probe.below[2] >= 0 /\ is_solid_at_world_pos(s.w, probe.below)
          THEN FallLoop(
                 [s EXCEPT !.w = Logged(set_block_world_ensured(s.w, probe.landing, e.block),
                                        "land", {probe.landing}),
                           !.touched = @ \cup {world_to_chunk_local(probe.landing).chunk},
                           !.landed = Append(@, <<probe.landing, e.block>>)],
                 Tail(ents), dt)
          ELSE FallLoop(
                 [s EXCEPT !.kept = Append(@, [e EXCEPT !.translation = next, !.velocity_y = v])],
                 Tail(ents), dt)

\* update_falling_blocks_system: [w, kept, touched, landed]
update_falling_blocks_system(w, ents, dt) ==
  LET s == FallLoop([w |-> w, kept |-> <<>>, touched |-> {}, landed |-> <<>>], ents, dt)
  IN [s EXCEPT !.w = rebuild_touched_chunk_meshes(s.w, s.touched)]

----------------------------------------------------------------------------
(* Inputs *)

\* Player collider half-size (STAND_HALF_SIZE) and eye offset above the body
\* centre (STAND_EYE_HEIGHT minus the half height), in length units
STAND_HALF_SIZE == <<6, 19, 6>>

EyeOffset == 17

\* A viewpoint: eye position, forward vector dir of integer length norm, and
\* the player body the camera follows
View(eye, dir, norm) ==
  [pos |-> eye, dir |-> dir, norm |-> norm,
   player |-> [pos |-> <<eye[1], eye[2] - EyeOffset, eye[3]>>, half_size |-> STAND_HALF_SIZE]]

\* The viewpoints the player takes: above column x = 1 looking down, and in
\* column x = 3 looking toward -X along the row y = 1
Views ==
  { View(<<30, 110, 10>>, <<0, -1, 0>>, 1),
    View(<<70, 30, 10>>, <<-1, 0, 0>>, 1) }

\* Number keys pressed in a frame (at most one here)
Hotkeys == {"none", "3"}

\* Frame deltas of the fall integration, in time quanta
DtChoices == {1, 2}

----------------------------------------------------------------------------
(* State *)

VARIABLES
  chunks,           \* WorldState.chunks
  center,           \* WorldState.center
  needed,           \* WorldState.needed
  pending,          \* WorldState.pending
  in_flight,        \* keys of WorldState.in_flight
  queue,            \* FallingPropagationQueue
  falling,          \* the FallingBlock entities, in spawn order
  selected,         \* SelectedBlock.current
  now,              \* Time::elapsed_secs, in clock ticks
  last_break_time,  \* InteractionCooldown.last_break_time
  last_place_time,  \* InteractionCooldown.last_place_time
  log,              \* the store steps of the handler that ran last, in order
  probe             \* the inputs drawn for, and the result of, the operation
                    \* applied last (specifications of single operations only)

vars == <<chunks, center, needed, pending, in_flight, queue, falling, selected,
          now, last_break_time, last_place_time, log, probe>>

\* The world store at the start of a handler
World ==
  [chunks |-> chunks, needed |-> needed, pending |-> pending, in_flight |-> in_flight,
   log |-> <<>>]

SetWorld(w) ==
  /\ chunks' = w.chunks
  /\ needed' = w.needed
  /\ pending' = w.pending
  /\ in_flight' = w.in_flight
  /\ log' = w.log

NoProbe == <<>>

\* setup_scene: WorldState::new, then spawn_initial_chunk_world ensures the
\* origin chunk and sets the centre; SelectedBlock and InteractionCooldown
\* start as constructed
Init ==
  /\ chunks = [c \in {<<0, 0, 0>>} |-> ChunkData(new_streaming(c), new_streaming(c))]
  /\ center = <<0, 0, 0>>
  /\ needed = {}
  /\ pending = <<>>
  /\ in_flight = {}
  /\ queue = [pending |-> <<>>, scheduled |-> {}]
  /\ falling = <<>>
  /\ selected = dirt_with_grass
  /\ now = 0
  /\ last_break_time = READY_TIME
  /\ last_place_time = READY_TIME
  /\ log = <<>>
  /\ probe = NoProbe

----------------------------------------------------------------------------
(* Actions *)

\* The clock advances between frames
AdvanceTime ==
  /\ now < MaxTime
  /\ now' = now + 1
  /\ log' = <<>>
  /\ UNCHANGED <<chunks, center, needed, pending, in_flight, queue, falling, selected,
                 last_break_time, last_place_time, probe>>

\* chunk_loading_system with the camera at pos
TickFrom(pos) ==
  \E order \in EnqueueOrders(World, pos) :
    \E w4 \in {TickSchedule(World, pos, order)} :
      \E finished \in SUBSET w4.in_flight :
         /\ SetWorld(PollAndMerge(w4, finished))
         /\ center' = chunk_center_from_camera_pos(pos)
         /\ UNCHANGED <<queue, falling, selected, now, last_break_time, last_place_time>>

\* chunk_loading_system with a camera
Tick == \E pos \in {view.pos : view \in Views} : TickFrom(pos) /\ UNCHANGED probe

\* chunk_loading_system without a camera: update_center_from_camera returns
\* None and the system returns at once
TickNoCamera ==
  /\ log' = <<>>
  /\ UNCHANGED <<chunks, center, needed, pending, in_flight, queue, falling, selected,
                 now, last_break_time, last_place_time, probe>>

\* SelectedBlock::apply_hotkeys
apply_hotkeys(current, key) ==
  CASE key = "1" -> dirt_with_grass
    [] key = "2" -> dirt
    [] key = "3" -> sand
    [] OTHER -> current

\* A cooldown gate that opens one clock tick after the last trigger
can_with_button_after_one_tick(pressed, last_time) ==
  pressed /\ now - last_time >= 1

\* InteractionCooldown::can_with_button
can_with_button(pressed, last_time) ==
  pressed /\ now - last_time >= INTERACTION_COOLDOWN_SECS

\* The break half of block_interaction_system: [go, broke, w, q].  go is
\* FALSE where the system returns early.
BreakPart(w, q, can_break, hit) ==
  IF ~can_break THEN [go |-> TRUE, broke |-> NoCell, w |-> w, q |-> q]
  ELSE IF hit = NoCell THEN [go |-> FALSE, broke |-> NoCell, w |-> w, q |-> q]
  ELSE LET r == break_block(w, hit)
       IN IF ~r.ok THEN [go |-> FALSE, broke |-> NoCell, w |-> w, q |-> q]
          ELSE [go |-> TRUE, broke |-> hit, w |-> Logged(r.w, "break", {hit}),
                q |-> enqueue_with_neighbors(q, hit)]

\* The place half of block_interaction_system: [placed, w, q]
PlacePart(w, q, can_place, view, ray, block) ==
  IF /\ can_place
     /\ ray.hit # NoCell
     /\ ray.last_empty # NoCell
     /\ is_face_neighbor(ray.hit, ray.last_empty)
  THEN LET r == place_block(w, view.player, view.dir, ray.last_empty, block)
       IN IF r.ok
          THEN [placed |-> ray.last_empty, w |-> Logged(r.w, "place", {ray.last_empty}),
                q |-> enqueue(q, ray.last_empty)]
          ELSE [placed |-> NoCell, w |-> w, q |-> q]
  ELSE [placed |-> NoCell, w |-> w, q |-> q]

\* An interaction that enters the clock reading for every button that passed
\* its cooldown gate, whatever came of the attempt
InteractFromMarkingAttempts(view, ray, key, left, right) ==
     LET can_break == can_with_button(left, last_break_time)
         can_place == can_with_button(right, last_place_time)
     IN \E b \in {BreakPart(World, queue, can_break, ray.hit)} :
        \E p \in {IF b.go
                  THEN PlacePart(b.w, b.q, can_place, view, ray, apply_hotkeys(selected, key))
                  ELSE [placed |-> NoCell, w |-> b.w, q |-> b.q]} :
        /\ can_break \/ can_place
        /\ selected' = apply_hotkeys(selected, key)
        /\ SetWorld(p.w)
        /\ queue' = p.q
        /\ last_break_time' = IF can_break THEN now ELSE last_break_time
        /\ last_place_time' = IF can_place THEN now ELSE last_place_time
        /\ UNCHANGED <<center, falling, now>>

\* block_interaction_system with the camera and player of `view`, the
\* hotkey `key` and the mouse buttons `left` and `right`, at least one of
\* them usable; `ray` is what the raymarch from the camera returned
InteractFrom(view, ray, key, left, right) ==
     LET can_break == can_with_button(left, last_break_time)
         can_place == can_with_button(right, last_place_time)
     IN \E b \in {BreakPart(World, queue, can_break, ray.hit)} :
        \E p \in {IF b.go
                  THEN PlacePart(b.w, b.q, can_place, view, ray, apply_hotkeys(selected, key))
                  ELSE [placed |-> NoCell, w |-> b.w, q |-> b.q]} :
        /\ can_break \/ can_place
        /\ selected' = apply_hotkeys(selected, key)
        /\ SetWorld(p.w)
        /\ queue' = p.q
        /\ last_break_time' = IF b.broke # NoCell THEN now ELSE last_break_time
        /\ last_place_time' = IF p.placed # NoCell THEN now ELSE last_place_time
        /\ UNCHANGED <<center, falling, now>>

\* block_interaction_system with a camera and at least one usable button
Interact ==
  \E view \in Views :
    \E ray \in {raymarch_hit_and_last_empty(World, view.pos, view.dir, view.norm)} :
      \E key \in Hotkeys, left \in BOOLEAN, right \in BOOLEAN :
        /\ InteractFrom(view, ray, key, left, right)
        /\ UNCHANGED probe

\* block_interaction_system when it returns before the raymarch: no camera,
\* or neither button usable.  Only the hotkeys are applied.
InteractIdle ==
  \E key \in Hotkeys :
    /\ selected' = apply_hotkeys(selected, key)
    /\ log' = <<>>
    /\ UNCHANGED <<chunks, center, needed, pending, in_flight, queue, falling,
                   now, last_break_time, last_place_time, probe>>

\* spawn_falling_blocks_system
Detach ==
  \E r \in {spawn_falling_blocks_system(World, queue, falling)} :
     /\ queue.pending # <<>>
     /\ Len(r.falling) <= MaxFalling
     /\ SetWorld(r.w)
     /\ queue' = r.q
     /\ falling' = r.falling
     /\ UNCHANGED <<center, selected, now, last_break_time, last_place_time, probe>>

\* The entities of s taken in the order given by the index sequence idx
Permuted(s, idx) == [i \in 1..Len(s) |-> s[idx[i]]]

\* update_falling_blocks_system with frame delta dt, the query visiting the
\* entities in any order
FallFrame ==
  \E dt \in DtChoices :
    \E idx \in Orders(1..Len(falling)) :
      \E r \in {update_falling_blocks_system(World, Permuted(falling, idx), dt)} :
         /\ falling # <<>>
         /\ \A i \in 1..Len(r.kept) : r.kept[i].translation[2] >= -(MaxVoidDepth * BLOCK_SIZE)
         /\ SetWorld(r.w)
         /\ falling' = r.kept
         /\ UNCHANGED <<center, queue, selected, now, last_break_time, last_place_time>>

Fall == FallFrame /\ UNCHANGED probe

\* The four voxel systems (voxel/mod.rs) run in any order, any number of
\* times, while the clock reads 0: each mouse button acts at most once.
Next ==
  \/ Tick
  \/ TickNoCamera
  \/ Interact
  \/ InteractIdle
  \/ Detach
  \/ Fall

Spec == Init /\ [][Next]_vars

\* The clock advances between frames; only the origin chunk is streamed in
\* (chunk_loading_system finds no camera).
NextClock ==
  \/ AdvanceTime
  \/ TickNoCamera
  \/ Interact
  \/ InteractIdle
  \/ Detach
  \/ Fall

SpecClock == Init /\ [][NextClock]_vars

----------------------------------------------------------------------------
(* The streaming window as a function of the camera position *)

\* The camera stays within this many blocks of the origin on X and on Z
MaxCameraBlocks == 5

\* Camera positions: block corners on the plane y = 30
CameraPositions ==
  {<<x * BLOCK_SIZE, 30, z * BLOCK_SIZE>> :
     x \in (-MaxCameraBlocks)..MaxCameraBlocks, z \in (-MaxCameraBlocks)..MaxCameraBlocks}

\* The camera moves by one block along X or Z
CameraMoves ==
  {<<BLOCK_SIZE, 0, 0>>, <<-BLOCK_SIZE, 0, 0>>, <<0, 0, BLOCK_SIZE>>, <<0, 0, -BLOCK_SIZE>>}

\* update_center_from_camera, build_needed_chunk_set and the assignment of
\* sync_needed_set for a camera at `pos`.  probe keeps the camera and the
\* centre the camera came from.
LookFrom(pos, from) ==
  /\ probe' = [camera |-> pos, moved_from |-> from]
  /\ center' = chunk_center_from_camera_pos(pos)
  /\ needed' = build_needed_chunk_set(chunk_center_from_camera_pos(pos))
  /\ UNCHANGED <<chunks, pending, in_flight, queue, falling, selected, now,
                 last_break_time, last_place_time, log>>

\* WorldState::new with no chunk loaded, and the other resources as
\* constructed
EmptyStore ==
  /\ chunks = [c \in {} |-> <<>>]
  /\ center = <<0, 0, 0>>
  /\ pending = <<>>
  /\ in_flight = {}
  /\ queue = [pending |-> <<>>, scheduled |-> {}]
  /\ falling = <<>>
  /\ selected = dirt_with_grass
  /\ now = 0
  /\ last_break_time = READY_TIME
  /\ last_place_time = READY_TIME
  /\ log = <<>>

InitWindow ==
  /\ EmptyStore
  /\ needed = build_needed_chunk_set(<<0, 0, 0>>)
  /\ probe = [camera |-> <<0, 30, 0>>, moved_from |-> <<0, 0, 0>>]

MoveCamera ==
  \E d \in CameraMoves :
    /\ Add3(probe.camera, d) \in CameraPositions
    /\ LookFrom(Add3(probe.camera, d), center)

NextWindow == MoveCamera

SpecWindow == InitWindow /\ [][NextWindow]_vars

----------------------------------------------------------------------------
(* world_to_chunk_local applied to drawn world coordinates *)

\* World block coordinates are drawn from -MaxCoord .. MaxCoord per axis
MaxCoord == 4

WorldCoords ==
  ((-MaxCoord)..MaxCoord) \X ((-MaxCoord)..MaxCoord) \X ((-MaxCoord)..MaxCoord)

\* probe keeps the coordinate and the (chunk, local) pair returned for it
Located(p) == [world_pos |-> p, out |-> world_to_chunk_local(p)]

InitCoords ==
  /\ EmptyStore
  /\ needed = {}
  /\ probe = Located(<<0, 0, 0>>)

Locate ==
  \E p \in WorldCoords :
    /\ probe' = Located(p)
    /\ UNCHANGED <<chunks, center, needed, pending, in_flight, queue, falling, selected,
                   now, last_break_time, last_place_time, log>>

NextCoords == Locate

SpecCoords == InitCoords /\ [][NextCoords]_vars

----------------------------------------------------------------------------
(* Chunk::set_block and Chunk::get_block applied to drawn cells *)

\* Number of writes made to the chunk
MaxWrites == 2

\* Local coordinates drawn: the chunk's own and those one step outside it
LocalsDrawn == ((-1)..CHUNK_SIZE) \X ((-1)..CHUNK_SIZE) \X ((-1)..CHUNK_SIZE)

BlocksDrawn == {air, dirt, Block("Sand", "PosY")}

\* probe keeps the chunk, the chunk before the write, the arguments of the
\* write, what get_block reads back at the written coordinate, and the
\* number of writes
InitChunk ==
  /\ EmptyStore
  /\ needed = {}
  /\ probe = [chunk |-> new_empty, before |-> new_empty, local |-> <<0, 0, 0>>,
              block |-> air, read |-> air, writes |-> 0]

SetBlock ==
  \E l \in LocalsDrawn, b \in BlocksDrawn :
    \E after \in {set_block(probe.chunk, l, b)} :
      /\ probe.writes < MaxWrites
      /\ probe' = [chunk |-> after, before |-> probe.chunk, local |-> l, block |-> b,
                   read |-> get_block(after, l), writes |-> probe.writes + 1]
      /\ UNCHANGED <<chunks, center, needed, pending, in_flight, queue, falling, selected,
                     now, last_break_time, last_place_time, log>>

NextChunk == SetBlock

SpecChunk == InitChunk /\ [][NextChunk]_vars

----------------------------------------------------------------------------
(* Block interaction from drawn viewpoints, and break_block at drawn cells *)

\* The standpoints place_block is called from, in the plane z = 10: above
\* column x = 1 of the origin chunk looking down, and standing on the top
\* of that column looking down at the feet
StandpointsDrawn ==
  { View(<<30, 110, 10>>, <<0, -1, 0>>, 1),
    View(<<30, 76, 10>>, <<0, -1, 0>>, 1) }

\* The viewpoints drawn, all in the plane z = 10: the two standpoints; in
\* column x = 3 looking toward -X along row y = 1, the collider touching
\* the cell in front; beside and above column x = 1 looking diagonally
\* down at it; inside the top cell of the column; above it looking up;
\* just above it looking down
ViewsDrawn ==
  StandpointsDrawn \cup
  { View(<<66, 30, 10>>, <<-1, 0, 0>>, 1),
    View(<<67, 60, 10>>, <<-4, -3, 0>>, 5),
    View(<<30, 30, 10>>, <<0, -1, 0>>, 1),
    View(<<30, 110, 10>>, <<0, 1, 0>>, 1),
    View(<<30, 42, 10>>, <<0, -1, 0>>, 1) }

\* The cells break_block is called at: two cells of the origin chunk, a
\* cell of the chunk next to it and a cell of the chunk above it
CellsDrawn == {<<1, 1, 0>>, <<1, 0, 0>>, <<2, 1, 0>>, <<1, 2, 0>>}

\* The origin chunk loaded, as in Init
InitEdit == Init

\* block_interaction_system; probe keeps the viewpoint, the buttons and the
\* result of the raymarch
InteractDrawn ==
  \E view \in ViewsDrawn :
    \E ray \in {raymarch_hit_and_last_empty(World, view.pos, view.dir, view.norm)} :
      \E key \in Hotkeys, left \in BOOLEAN, right \in BOOLEAN :
        /\ InteractFrom(view, ray, key, left, right)
        /\ probe' = [op |-> "interact", view |-> view, left |-> left,
                     right |-> right, ray |-> ray]

\* WorldState::break_block called at a drawn cell; probe keeps the cell and
\* the value returned
BreakBlockDrawn ==
  \E target_world \in CellsDrawn :
    \E r \in {break_block(World, target_world)} :
      /\ SetWorld(r.w)
      /\ probe' = [op |-> "break_block", target_world |-> target_world, ok |-> r.ok]
      /\ UNCHANGED <<center, queue, falling, selected, now, last_break_time,
                     last_place_time>>

\* WorldState::place_block called at the top cell of column x = 1 or the
\* cell above it with the player and the forward vector of a drawn
\* standpoint; probe keeps the arguments and the
\* value returned
PlaceBlockDrawn ==
  \E view \in StandpointsDrawn, target_world \in {<<1, 1, 0>>, <<1, 2, 0>>} :
    \E r \in {place_block(World, view.player, view.dir, target_world, selected)} :
      /\ SetWorld(r.w)
      /\ probe' = [op |-> "place_block", view |-> view,
                   target_world |-> target_world, ok |-> r.ok]
      /\ UNCHANGED <<center, queue, falling, selected, now, last_break_time,
                     last_place_time>>

NextEdit ==
  \/ InteractDrawn
  \/ BreakBlockDrawn
  \/ PlaceBlockDrawn

SpecEdit == InitEdit /\ [][NextEdit]_vars

----------------------------------------------------------------------------
(* Block interaction over several frames, with the times of the breaks and *)
(* of the placements kept                                                  *)

\* probe keeps the clock readings at which a block was broken and those at
\* which a block was placed, oldest first
InitCooldown ==
  /\ chunks = [c \in {<<0, 0, 0>>} |-> ChunkData(new_streaming(c), new_streaming(c))]
  /\ center = <<0, 0, 0>>
  /\ needed = {}
  /\ pending = <<>>
  /\ in_flight = {}
  /\ queue = [pending |-> <<>>, scheduled |-> {}]
  /\ falling = <<>>
  /\ selected = dirt_with_grass
  /\ now = 0
  /\ last_break_time = READY_TIME
  /\ last_place_time = READY_TIME
  /\ log = <<>>
  /\ probe = [break_times |-> <<>>, place_times |-> <<>>]

\* block_interaction_system; a break and a placement are entered in probe
\* with the clock reading of the frame
InteractTimed ==
  \E view \in Views :
    \E ray \in {raymarch_hit_and_last_empty(World, view.pos, view.dir, view.norm)} :
      \E key \in Hotkeys, left \in BOOLEAN, right \in BOOLEAN :
        /\ InteractFrom(view, ray, key, left, right)
        /\ probe' = [break_times |->
                       IF LogOf(log', "break") # {}
                       THEN Append(probe.break_times, now) ELSE probe.break_times,
                     place_times |->
                       IF LogOf(log', "place") # {}
                       THEN Append(probe.place_times, now) ELSE probe.place_times,
                     view |-> view, ray |-> ray, left |-> left, right |-> right]

NextCooldown ==
  \/ AdvanceTime
  \/ InteractTimed

SpecCooldown == InitCooldown /\ [][NextCooldown]_vars

----------------------------------------------------------------------------
(* should_start_falling applied to drawn blocks, cells and supports *)

\* The blocks classified: every kind with every facing
BlocksClassified == {Block(k, f) : k \in Kinds, f \in Facings}

\* The cells classified: the cells of column x = 1, z = 0 at heights 0 to 2
\* (the cell below is under the world, in the origin chunk, in the origin
\* chunk from the chunk above), and a cell over a chunk that is not loaded
CellsClassified == {<<1, 0, 0>>, <<1, 1, 0>>, <<1, 2, 0>>, <<2, 1, 0>>}

\* What the cell below holds, where it is a cell of the origin chunk
SupportsDrawn == {air, dirt, dirt_with_grass, sand}

\* The origin chunk, empty but for `block` at world_pos and `support` in the
\* cell below it, where these are cells of the origin chunk
StoreClassified(world_pos, block, support) ==
  LET cl == world_to_chunk_local(world_pos)
      below == world_to_chunk_local(Add3(world_pos, <<0, -1, 0>>))
      c0 == IF below.chunk = <<0, 0, 0>>
            THEN set_block(new_empty, below.local, support) ELSE new_empty
      c1 == IF cl.chunk = <<0, 0, 0>> THEN set_block(c0, cl.local, block) ELSE c0
  IN [c \in {<<0, 0, 0>>} |-> ChunkData(c1, c1)]

\* probe keeps the arguments of should_start_falling, the block in the cell
\* below (NoBlock where there is no loaded cell below) and the value
\* returned
Classified(w, world_pos, block) ==
  [world_pos |-> world_pos, block |-> block,
   below |-> get_block_world(w, Add3(world_pos, <<0, -1, 0>>)),
   out |-> should_start_falling(w, world_pos, block)]

InitClassify ==
  /\ EmptyStore
  /\ needed = {}
  /\ \E world_pos \in CellsClassified, block \in BlocksClassified :
       probe = Classified(World, world_pos, block)

Classify ==
  \E world_pos \in CellsClassified, block \in BlocksClassified, support \in SupportsDrawn :
    /\ chunks' = StoreClassified(world_pos, block, support)
    /\ probe' = Classified([World EXCEPT !.chunks = chunks'], world_pos, block)
    /\ UNCHANGED <<center, needed, pending, in_flight, queue, falling, selected, now,
                   last_break_time, last_place_time, log>>

NextClassify == Classify

SpecClassify == InitClassify /\ [][NextClassify]_vars

----------------------------------------------------------------------------
(* World-level reads and writes over stores with chunks present and absent *)

\* What WorldState::set_block_world_loaded returns: the chunk coordinate of
\* the write, NoCell standing for Option::None
set_block_world_loaded_returned(w, p) ==
  LET cl == world_to_chunk_local(p)
  IN IF cl.chunk \in DOMAIN w.chunks THEN cl.chunk ELSE NoCell

\* World positions looked up: a terrain cell of the origin chunk, a cell of
\* the chunk beside it, and a cell of a chunk at negative x above the
\* streamed layer
CellsLooked == {<<1, 1, 0>>, <<2, 1, 0>>, <<-1, 2, 0>>}

\* The chunks of those positions
ChunksLooked == {world_to_chunk_local(p).chunk : p \in CellsLooked}

InitLookup ==
  /\ EmptyStore
  /\ needed = {}
  /\ probe = NoProbe

\* set_block_world_loaded(world_pos, block); probe keeps the arguments, the
\* value returned and the chunk map before the call
WriteLoaded ==
  \E world_pos \in CellsLooked, block \in BlocksDrawn :
    /\ SetWorld(set_block_world_loaded(World, world_pos, block))
    /\ probe' = [op |-> "set_block_world_loaded", world_pos |-> world_pos,
                 block |-> block,
                 returned |-> set_block_world_loaded_returned(World, world_pos),
                 before |-> chunks]
    /\ UNCHANGED <<center, queue, falling, selected, now, last_break_time,
                   last_place_time>>

\* ensure_chunk(coord)
EnsureChunk ==
  \E coord \in ChunksLooked :
    /\ SetWorld(ensure_chunk(World, coord))
    /\ probe' = [op |-> "ensure_chunk", coord |-> coord]
    /\ UNCHANGED <<center, queue, falling, selected, now, last_break_time,
                   last_place_time>>

\* unload_chunk(coord)
UnloadChunk ==
  \E coord \in ChunksLooked :
    /\ SetWorld(unload_chunk(World, coord))
    /\ probe' = [op |-> "unload_chunk", coord |-> coord]
    /\ UNCHANGED <<center, queue, falling, selected, now, last_break_time,
                   last_place_time>>

NextLookup ==
  \/ WriteLoaded
  \/ EnsureChunk
  \/ UnloadChunk

SpecLookup == InitLookup /\ [][NextLookup]_vars

----------------------------------------------------------------------------
(* Streaming from a fixed viewpoint while one background build stalls      *)
(* probe keeps the camera position and the coordinate whose build task     *)
(* never returns an output (NoCell: every build returns one).              *)

\* The window of the camera position of probe
WindowOfView == build_needed_chunk_set(chunk_center_from_camera_pos(probe.pos))

\* Camera positions of the fixed viewpoint: over the origin chunk, in the
\* chunk beside it, and two chunks away
ViewpointsFixed == {view.pos : view \in Views} \cup {<<110, 110, 10>>}

InitStalled ==
  /\ chunks = [c \in {<<0, 0, 0>>} |-> ChunkData(new_streaming(c), new_streaming(c))]
  /\ center = <<0, 0, 0>>
  /\ needed = {}
  /\ pending = <<>>
  /\ in_flight = {}
  /\ queue = [pending |-> <<>>, scheduled |-> {}]
  /\ falling = <<>>
  /\ selected = dirt_with_grass
  /\ now = 0
  /\ last_break_time = READY_TIME
  /\ last_place_time = READY_TIME
  /\ log = <<>>
  /\ \E pos \in ViewpointsFixed :
       \E stalled \in
           (build_needed_chunk_set(chunk_center_from_camera_pos(pos)) \ DOMAIN chunks)
             \cup {NoCell} :
         probe = [pos |-> pos, stalled |-> stalled]

\* chunk_loading_system in a frame in which the poll returns the outputs of
\* the builds in `finished`: all of the builds that do not stall
\* (others_done), or only some of them
TickPolling(others_done) ==
  \E order \in EnqueueOrders(World, probe.pos) :
    \E w4 \in {TickSchedule(World, probe.pos, order)} :
      \E finished \in IF others_done
                      THEN {w4.in_flight \ {probe.stalled}}
                      ELSE (SUBSET (w4.in_flight \ {probe.stalled}))
                             \ {w4.in_flight \ {probe.stalled}} :
         /\ SetWorld(PollAndMerge(w4, finished))
         /\ center' = chunk_center_from_camera_pos(probe.pos)
         /\ UNCHANGED <<queue, falling, selected, now, last_break_time, last_place_time,
                        probe>>

\* A frame in which some build that does not stall is still running
TickSomeRunning == TickPolling(FALSE)

\* A frame in which every build that does not stall has returned its output
TickOthersDone == TickPolling(TRUE)

NextStalled ==
  \/ TickSomeRunning
  \/ TickOthersDone

\* TickOthersDone can run and change the state
TickOthersDoneEnabled ==
  \E order \in EnqueueOrders(World, probe.pos) :
    \E w4 \in {TickSchedule(World, probe.pos, order)} :
      \E w \in {PollAndMerge(w4, w4.in_flight \ {probe.stalled})} :
        <<w.chunks, w.needed, w.pending, w.in_flight, w.log,
          chunk_center_from_camera_pos(probe.pos)>>
          # <<chunks, needed, pending, in_flight, log, center>>

\* Weak fairness of TickOthersDone, written out
FairTickOthersDone == []<>(~TickOthersDoneEnabled) \/ []<><<TickOthersDone>>_vars

\* chunk_loading_system runs in every frame and a build task that does not
\* stall runs to its end on the task pool: a frame in which the other builds
\* are all done comes, as long as such a frame would change anything
SpecStalled ==
  InitStalled /\ [][NextStalled]_vars /\ FairTickOthersDone

----------------------------------------------------------------------------
(* The voxel systems with a streaming camera that has left the origin      *)
(* chunk, the falling systems run again and again                          *)

\* Camera position of the streaming tick: two chunks along +X from the
\* origin chunk, where the window no longer holds the origin chunk
RoamingPositions == {<<110, 110, 10>>}

\* chunk_loading_system with a camera that roams
TickRoaming == \E pos \in RoamingPositions : TickFrom(pos) /\ UNCHANGED probe

NextRoaming ==
  \/ TickRoaming
  \/ Interact
  \/ Detach
  \/ Fall

\* Detach can run: the queue holds a position and the entities it would spawn
\* stay within the bound
DetachEnabled ==
  /\ queue.pending # <<>>
  /\ Len(spawn_falling_blocks_system(World, queue, falling).falling) <= MaxFalling

\* Weak fairness of Detach, written out: spawn_falling_blocks_system is in the
\* Update schedule and runs every frame
FairDetach == []<>(~DetachEnabled) \/ []<><<Detach>>_vars

\* Both falling systems run every frame (voxel/mod.rs): a queued position is
\* examined and a falling entity is advanced, eventually
SpecRoaming ==
  Init /\ [][NextRoaming]_vars /\ FairDetach /\ WF_vars(Fall)

----------------------------------------------------------------------------
(* The chunk render entities.  probe is [live, entity]: the render         *)
(* entities spawned and not despawned, and ChunkData.entity of each loaded *)
(* chunk.  An entity is <<coord, k>>: the k-th live entity spawned for the *)
(* chunk coordinate coord.                                                 *)

\* WorldState::spawn_chunk_entity followed by chunks.insert(coord, ...): a
\* fresh entity is spawned and the entry of coord refers to it
SpawnChunkEntity(pr, coord) ==
  LET k == CHOOSE k \in 0..Cardinality(pr.live) :
             /\ <<coord, k>> \notin pr.live
             /\ \A j \in 0..(k - 1) : <<coord, j>> \in pr.live
  IN [live |-> pr.live \cup {<<coord, k>>},
      entity |-> [c \in (DOMAIN pr.entity) \cup {coord} |->
                    IF c = coord THEN <<coord, k>> ELSE pr.entity[c]]]

\* WorldState::unload_chunk: the entry is removed and its entity despawned
DespawnChunkEntity(pr, coord) ==
  IF coord \in DOMAIN pr.entity
  THEN [live |-> pr.live \ {pr.entity[coord]},
        entity |-> [c \in (DOMAIN pr.entity) \ {coord} |-> pr.entity[c]]]
  ELSE pr

\* `op` applied for each coordinate of the set coords
RECURSIVE ForEachCoord(_, _, _)
ForEachCoord(pr, coords, spawn) ==
  IF coords = {} THEN pr
  ELSE LET c == CHOOSE c \in coords : TRUE
       IN ForEachCoord(IF spawn THEN SpawnChunkEntity(pr, c) ELSE DespawnChunkEntity(pr, c),
                       coords \ {c}, spawn)

\* The entities after the store steps of the log l, in order: ensure_chunk
\* and insert_loaded_chunk (a merge) spawn, unload_chunk (an eviction)
\* despawns
RECURSIVE TrackEntities(_, _)
TrackEntities(pr, l) ==
  IF l = <<>> THEN pr
  ELSE LET step == Head(l)[1]
           coords == Head(l)[2]
       IN TrackEntities(
            CASE step \in {"ensure", "merge"} -> ForEachCoord(pr, coords, TRUE)
              [] step = "evict" -> ForEachCoord(pr, coords, FALSE)
              [] OTHER -> pr,
            Tail(l))

InitEntities ==
  /\ chunks = [c \in {<<0, 0, 0>>} |-> ChunkData(new_streaming(c), new_streaming(c))]
  /\ center = <<0, 0, 0>>
  /\ needed = {}
  /\ pending = <<>>
  /\ in_flight = {}
  /\ queue = [pending |-> <<>>, scheduled |-> {}]
  /\ falling = <<>>
  /\ selected = dirt_with_grass
  /\ now = 0
  /\ last_break_time = READY_TIME
  /\ last_place_time = READY_TIME
  /\ log = <<>>
  /\ probe = SpawnChunkEntity([live |-> {}, entity |-> [c \in {} |-> <<>>]], <<0, 0, 0>>)

\* chunk_loading_system with a camera
TickTracked ==
  /\ \E pos \in {view.pos : view \in Views} : TickFrom(pos)
  /\ probe' = TrackEntities(probe, log')

\* block_interaction_system with a camera and at least one usable button
InteractTracked ==
  /\ \E view \in Views :
       \E ray \in {raymarch_hit_and_last_empty(World, view.pos, view.dir, view.norm)} :
         \E key \in Hotkeys, left \in BOOLEAN, right \in BOOLEAN :
           InteractFrom(view, ray, key, left, right)
  /\ probe' = TrackEntities(probe, log')

\* update_falling_blocks_system
FallTracked ==
  /\ FallFrame
  /\ probe' = TrackEntities(probe, log')

NextEntities ==
  \/ TickTracked
  \/ InteractTracked
  \/ Detach
  \/ FallTracked

SpecEntities == InitEntities /\ [][NextEntities]_vars

----------------------------------------------------------------------------
(* Block facings from direction vectors                                    *)

\* Components of the direction vectors drawn lie in -MaxDir..MaxDir
MaxDir == 2

DirectionsDrawn == ((-MaxDir)..MaxDir) \X ((-MaxDir)..MaxDir) \X ((-MaxDir)..MaxDir)

\* Every block value: each kind with each front
BlocksFaced == {Block(kind, front) : kind \in Kinds, front \in Facings}

\* probe keeps the block, the direction and the block returned
Faced(block, direction) ==
  [block |-> block, direction |-> direction,
   out |-> with_front_from_direction(block, direction)]

InitFacing ==
  /\ EmptyStore
  /\ needed = {}
  /\ \E block \in BlocksFaced, direction \in DirectionsDrawn :
       probe = Faced(block, direction)

\* with_front_from_direction(block, direction), for a direction one step
\* along an axis from the one taken last
Face ==
  \E block \in BlocksFaced, direction \in DirectionsDrawn :
    /\ Abs(direction[1] - probe.direction[1]) + Abs(direction[2] - probe.direction[2])
         + Abs(direction[3] - probe.direction[3]) = 1
    /\ probe' = Faced(block, direction)
    /\ UNCHANGED <<chunks, center, needed, pending, in_flight, queue, falling, selected,
                   now, last_break_time, last_place_time, log>>

NextFacing == Face

SpecFacing == InitFacing /\ [][NextFacing]_vars

----------------------------------------------------------------------------
(* Chunk meshes: voxel/mesh/builder.rs, voxel/mesh_types.rs                *)
(* The mesh builder reads one chunk only.  It is applied here to chunks of  *)
(* edge MESH_CHUNK_SIZE, the smallest edge at which a cell has all six of   *)
(* its face neighbours inside the chunk (in the store's chunks of edge      *)
(* CHUNK_SIZE = 2 every cell has three).  A mesh is the set of its quads,   *)
(* each <<local, normal>>; its index buffer holds six indices per quad.     *)

MESH_CHUNK_SIZE == 3

MaxBreaks == 2

\* FACE_DEFS: the neighbor offset (equal to the normal) of the six faces
FACE_DEFS ==
  {<<1, 0, 0>>, <<-1, 0, 0>>, <<0, 1, 0>>, <<0, -1, 0>>, <<0, 0, 1>>, <<0, 0, -1>>}

is_air(b) == b.kind = "Air"

\* Chunk::in_bounds, Chunk::index, Chunk::get_block and Chunk::set_block
\* for a chunk of edge MESH_CHUNK_SIZE
MeshLocals ==
  (0..(MESH_CHUNK_SIZE - 1)) \X (0..(MESH_CHUNK_SIZE - 1)) \X (0..(MESH_CHUNK_SIZE - 1))

mesh_in_bounds(l) == l \in MeshLocals

mesh_index(l) == l[1] + l[2] * MESH_CHUNK_SIZE + l[3] * MESH_CHUNK_SIZE * MESH_CHUNK_SIZE

mesh_get_block(chunk, l) ==
  IF ~mesh_in_bounds(l) THEN air ELSE chunk[mesh_index(l) + 1]

mesh_set_block(chunk, l, b) ==
  IF ~mesh_in_bounds(l) THEN chunk ELSE [chunk EXCEPT ![mesh_index(l) + 1] = b]

\* A mesh builder that culls no face
build_chunk_mesh_data_unculled(chunk) ==
  {<<l, f>> : l \in {c \in MeshLocals : ~is_air(mesh_get_block(chunk, c))}, f \in FACE_DEFS}

\* build_chunk_mesh_data: one quad for every face of a non-air block whose
\* neighbour, read from the same chunk, is not solid; a neighbour outside
\* the chunk reads as Air
build_chunk_mesh_data(chunk) ==
  {lf \in MeshLocals \X FACE_DEFS :
     /\ ~is_air(mesh_get_block(chunk, lf[1]))
     /\ ~is_solid(mesh_get_block(chunk, Add3(lf[1], lf[2])))}

\* FACE_DEFS in the order of the array: normal, neighbor offset and the four
\* corners of the unit cube
FaceDefs ==
  << [normal |-> <<1, 0, 0>>, neighbor |-> <<1, 0, 0>>,
      corners |-> << <<1, 0, 0>>, <<1, 1, 0>>, <<1, 1, 1>>, <<1, 0, 1>> >>],
     [normal |-> <<-1, 0, 0>>, neighbor |-> <<-1, 0, 0>>,
      corners |-> << <<0, 0, 1>>, <<0, 1, 1>>, <<0, 1, 0>>, <<0, 0, 0>> >>],
     [normal |-> <<0, 1, 0>>, neighbor |-> <<0, 1, 0>>,
      corners |-> << <<0, 1, 0>>, <<0, 1, 1>>, <<1, 1, 1>>, <<1, 1, 0>> >>],
     [normal |-> <<0, -1, 0>>, neighbor |-> <<0, -1, 0>>,
      corners |-> << <<0, 0, 1>>, <<0, 0, 0>>, <<1, 0, 0>>, <<1, 0, 1>> >>],
     [normal |-> <<0, 0, 1>>, neighbor |-> <<0, 0, 1>>,
      corners |-> << <<1, 0, 1>>, <<1, 1, 1>>, <<0, 1, 1>>, <<0, 0, 1>> >>],
     [normal |-> <<0, 0, -1>>, neighbor |-> <<0, 0, -1>>,
      corners |-> << <<0, 0, 0>>, <<0, 1, 0>>, <<1, 1, 0>>, <<1, 0, 0>> >>] >>

\* MeshData without a face: positions, normals and indices are the buffers
\* (the atlas coordinates are left out), faces lists the <<local, normal>>
\* of the calls of add_face in order
EmptyMeshData == [faces |-> <<>>, positions |-> <<>>, normals |-> <<>>, indices |-> <<>>]

\* A face whose second triangle does not start at the first vertex
add_face_as_strip(data, face, vertices, normal) ==
  LET start == Len(data.positions)
  IN [faces |-> Append(data.faces, face),
      positions |-> data.positions \o vertices,
      normals |-> data.normals \o <<normal, normal, normal, normal>>,
      indices |-> data.indices \o
                    <<start, start + 1, start + 2, start + 1, start + 2, start + 3>>]

\* add_face
add_face(data, face, vertices, normal) ==
  LET start == Len(data.positions)
  IN [faces |-> Append(data.faces, face),
      positions |-> data.positions \o vertices,
      normals |-> data.normals \o <<normal, normal, normal, normal>>,
      indices |-> data.indices \o
                    <<start, start + 1, start + 2, start, start + 2, start + 3>>]

\* The loop over FACE_DEFS for one non-air cell: the data after the first
\* k faces of the array have been dealt with
RECURSIVE MeshFaceLoop(_, _, _, _)
MeshFaceLoop(chunk, data, local, k) ==
  IF k = 0 THEN data
  ELSE LET before == MeshFaceLoop(chunk, data, local, k - 1)
           face == FaceDefs[k]
           base == <<local[1] * BLOCK_SIZE, local[2] * BLOCK_SIZE, local[3] * BLOCK_SIZE>>
           vertices == <<Add3(base, <<face.corners[1][1] * BLOCK_SIZE,
                                      face.corners[1][2] * BLOCK_SIZE,
                                      face.corners[1][3] * BLOCK_SIZE>>),
                         Add3(base, <<face.corners[2][1] * BLOCK_SIZE,
                                      face.corners[2][2] * BLOCK_SIZE,
                                      face.corners[2][3] * BLOCK_SIZE>>),
                         Add3(base, <<face.corners[3][1] * BLOCK_SIZE,
                                      face.corners[3][2] * BLOCK_SIZE,
                                      face.corners[3][3] * BLOCK_SIZE>>),
                         Add3(base, <<face.corners[4][1] * BLOCK_SIZE,
                                      face.corners[4][2] * BLOCK_SIZE,
                                      face.corners[4][3] * BLOCK_SIZE>>)>>
       IN IF is_solid(mesh_get_block(chunk, Add3(local, face.neighbor))) THEN before
          ELSE add_face(before, <<local, face.normal>>, vertices, face.normal)

\* The loops over the cells of build_chunk_mesh_data from the cell of index
\* i on: z outermost, then y, then x, which is the order of the cell index.
\* The test on the length of the cell's buffers only fixes the order of
\* evaluation: a cell's faces are appended before the next cell is visited.
RECURSIVE MeshLoop(_, _, _)
MeshLoop(chunk, data, i) ==
  IF i >= MESH_CHUNK_SIZE * MESH_CHUNK_SIZE * MESH_CHUNK_SIZE THEN data
  ELSE LET local == <<i % MESH_CHUNK_SIZE, (i \div MESH_CHUNK_SIZE) % MESH_CHUNK_SIZE,
                      i \div (MESH_CHUNK_SIZE * MESH_CHUNK_SIZE)>>
           after == IF is_air(mesh_get_block(chunk, local)) THEN data
                    ELSE MeshFaceLoop(chunk, data, local, Len(FaceDefs))
       IN IF Len(after.positions) >= Len(data.positions)
          THEN MeshLoop(chunk, after, i + 1)
          ELSE after

\* build_chunk_mesh_data with its buffers
build_chunk_mesh_buffers(chunk) == MeshLoop(chunk, EmptyMeshData, 0)

\* Number of triangles of a mesh: add_face appends the six indices of two
\* triangles for each quad
Triangles(mesh) == (6 * Cardinality(mesh)) \div 3

\* The chunks drawn: the columns filled with Dirt up to height h at the
\* low-x side and up to height MESH_CHUNK_SIZE elsewhere, with a
\* DirtWithGrass top
ChunkFilled(h) ==
  [i \in 1..(MESH_CHUNK_SIZE * MESH_CHUNK_SIZE * MESH_CHUNK_SIZE) |->
     LET l == CHOOSE c \in MeshLocals : mesh_index(c) + 1 = i
         top == IF l[1] = 0 THEN h ELSE MESH_CHUNK_SIZE
     IN IF l[2] >= top THEN air
        ELSE IF l[2] = top - 1 THEN dirt_with_grass
        ELSE dirt]

ChunksDrawn == {ChunkFilled(h) : h \in 1..MESH_CHUNK_SIZE}

\* probe keeps the chunk, its mesh's triangle count and buffers, the cell broken last,
\* the number of its face neighbours that were solid within the chunk, the
\* triangle count before that break, and the number of breaks
InitMesh ==
  /\ EmptyStore
  /\ needed = {}
  /\ \E chunk \in ChunksDrawn :
       probe = [chunk |-> chunk, triangles |-> Triangles(build_chunk_mesh_data(chunk)),
                data |-> build_chunk_mesh_buffers(chunk),
                broken |-> NoCell, solid_neighbors |-> 0, triangles_before |-> 0,
                breaks |-> 0]

\* WorldState::break_block within one chunk: the cell of an interactable
\* block is set to Air and the chunk's mesh is rebuilt
BreakInChunk ==
  \E l \in MeshLocals :
    \E chunk \in {mesh_set_block(probe.chunk, l, air)} :
      /\ probe.breaks < MaxBreaks
      /\ is_interactable(mesh_get_block(probe.chunk, l))
      /\ probe' = [chunk |-> chunk,
                   triangles |-> Triangles(build_chunk_mesh_data(chunk)),
                   data |-> build_chunk_mesh_buffers(chunk),
                   broken |-> l,
                   solid_neighbors |->
                     Cardinality({f \in FACE_DEFS :
                                    /\ Add3(l, f) \in MeshLocals
                                    /\ probe.chunk[mesh_index(Add3(l, f)) + 1].kind # "Air"}),
                   triangles_before |-> probe.triangles,
                   breaks |-> probe.breaks + 1]
      /\ UNCHANGED <<chunks, center, needed, pending, in_flight, queue, falling,
                     selected, now, last_break_time, last_place_time, log>>

NextMesh == BreakInChunk

SpecMesh == InitMesh /\ [][NextMesh]_vars

----------------------------------------------------------------------------
(* Player motion against the voxel store: player/components.rs,            *)
(* voxel/world.rs.  A motion state is [pos, vel]; lengths are in the units *)
(* of BLOCK_SIZE = 20, so the probe depth BLOCK_SIZE * 0.05 is 1 and the   *)
(* footprint inset BLOCK_SIZE * 0.2 is 4.                                  *)

\* The cell index of a length: (v / BLOCK_SIZE).floor()
FloorCell(v) == v \div BLOCK_SIZE

\* WorldState::intersects_solid
intersects_solid(w, position, half_size) ==
  \E x \in FloorCell(position[1] - half_size[1])..FloorCell(position[1] + half_size[1]),
     y \in FloorCell(position[2] - half_size[2])..FloorCell(position[2] + half_size[2]),
     z \in FloorCell(position[3] - half_size[3])..FloorCell(position[3] + half_size[3]) :
    is_solid_at_world_pos(w, <<x, y, z>>)

\* WorldState::has_ground_support
has_ground_support(w, position, half_size) ==
  LET probe_down == (BLOCK_SIZE * 5) \div 100
      foot_y == position[2] - half_size[2] - probe_down
      block_y == FloorCell(foot_y)
      inset == (BLOCK_SIZE * 2) \div 10
      px == IF half_size[1] - inset > 0 THEN half_size[1] - inset ELSE 0
      pz == IF half_size[3] - inset > 0 THEN half_size[3] - inset ELSE 0
      probes == {<<-px, -pz>>, <<-px, pz>>, <<px, -pz>>, <<px, pz>>, <<0, 0>>}
  IN \E p \in probes :
       is_solid_at_world_pos(w, <<FloorCell(position[1] + p[1]), block_y,
                                  FloorCell(position[3] + p[2])>>)

\* A move along one axis that never asks for ground support
move_axis_unguarded(w, half_size, axis, st, dt, prevent_fall) ==
  LET delta == st.vel[axis] * dt
      candidate == [st.pos EXCEPT ![axis] = @ + delta]
  IN IF delta = 0 THEN st
     ELSE IF intersects_solid(w, candidate, half_size)
     THEN [st EXCEPT !.vel[axis] = 0]
     ELSE [st EXCEPT !.pos = candidate]

\* Player::move_axis; axis is 1 (X), 2 (Y) or 3 (Z)
move_axis(w, half_size, axis, st, dt, prevent_fall) ==
  LET delta == st.vel[axis] * dt
      candidate == [st.pos EXCEPT ![axis] = @ + delta]
  IN IF delta = 0 THEN st
     ELSE IF intersects_solid(w, candidate, half_size)
     THEN [st EXCEPT !.vel[axis] = 0]
     ELSE IF prevent_fall /\ axis # 2 /\ ~has_ground_support(w, candidate, half_size)
     THEN [st EXCEPT !.vel[axis] = 0]
     ELSE [st EXCEPT !.pos = candidate]

\* Player::resolve_motion_axes: X, then Z, then Y
resolve_motion_axes(w, half_size, st, dt, crouch_edge_guard) ==
  LET after_x == move_axis(w, half_size, 1, st, dt, crouch_edge_guard)
      after_z == move_axis(w, half_size, 3, after_x, dt, crouch_edge_guard)
  IN move_axis(w, half_size, 2, after_z, dt, FALSE)

\* The player walks over and around the origin chunk, whose cells are all
\* solid: its top is at height 2 * BLOCK_SIZE, the collider centre of a
\* player standing on it at 2 * BLOCK_SIZE + STAND_HALF_SIZE[2]
MaxWalk == 3

MaxRise == 1

StandingStart == <<20, 59, 20>>

\* Velocities per frame: horizontal components of half a block, vertical
\* ones of a fifth of a block
VelocitiesDrawn == {-10, 0, 10} \X {-4, 0, 4} \X {-10, 0, 10}

\* probe keeps the motion state before the call, the guard flag, the frame
\* delta and the motion state after the call (out)
InitMotion ==
  /\ Init!1 /\ Init!2 /\ Init!3 /\ Init!4 /\ Init!5 /\ Init!6 /\ Init!7
  /\ Init!8 /\ Init!9 /\ Init!10 /\ Init!11 /\ Init!12
  /\ probe = [pos |-> StandingStart, vel |-> <<0, 0, 0>>, guard |-> FALSE, dt |-> 1,
              out |-> [pos |-> StandingStart, vel |-> <<0, 0, 0>>]]

\* One physics frame: resolve_motion_axes from the position reached, with a
\* velocity and a guard flag drawn
Move ==
  \E vel \in VelocitiesDrawn, guard \in BOOLEAN :
    LET st == [pos |-> probe.out.pos, vel |-> vel]
        out == resolve_motion_axes(World, STAND_HALF_SIZE, st, 1, guard)
    IN /\ Abs(out.pos[1] - StandingStart[1]) <= 10 * MaxWalk
       /\ Abs(out.pos[3] - StandingStart[3]) <= 10 * MaxWalk
       /\ Abs(out.pos[2] - StandingStart[2]) <= 4 * MaxRise
       /\ probe' = [pos |-> st.pos, vel |-> vel, guard |-> guard, dt |-> 1, out |-> out]
       /\ UNCHANGED <<chunks, center, needed, pending, in_flight, queue, falling,
                      selected, now, last_break_time, last_place_time, log>>

NextMotion == Move

SpecMotion == InitMotion /\ [][NextMotion]_vars

----------------------------------------------------------------------------
(* The falling propagation queue on its own: any sequence of enqueue,      *)
(* enqueue_with_neighbors and pop                                          *)

\* Length up to which the queue is followed
MaxQueue == 7

\* Positions enqueued one at a time: a cell, its neighbour along +X and a
\* cell two above it; enqueue_with_neighbors is called on the first
PositionsQueued == {<<1, 1, 0>>, <<2, 1, 0>>, <<1, 3, 0>>}

PositionsSeeded == {<<1, 1, 0>>}

\* What FallingPropagationQueue::pop returns, NoCell standing for None
pop_returned(q) == IF q.pending = <<>> THEN NoCell ELSE Head(q.pending)

InitQueue ==
  /\ EmptyStore
  /\ needed = {}
  /\ probe = NoProbe

\* enqueue(pos); probe keeps the operation, its argument and the queue
\* before the call
Enqueue ==
  \E pos \in PositionsQueued :
    /\ Len(enqueue(queue, pos).pending) <= MaxQueue
    /\ queue' = enqueue(queue, pos)
    /\ probe' = [op |-> "enqueue", pos |-> pos, before |-> queue]
    /\ UNCHANGED <<chunks, center, needed, pending, in_flight, falling, selected, now,
                   last_break_time, last_place_time, log>>

\* enqueue_with_neighbors(pos)
EnqueueWithNeighbors ==
  \E pos \in PositionsSeeded :
    /\ Len(enqueue_with_neighbors(queue, pos).pending) <= MaxQueue
    /\ queue' = enqueue_with_neighbors(queue, pos)
    /\ probe' = [op |-> "enqueue_with_neighbors", pos |-> pos, before |-> queue]
    /\ UNCHANGED <<chunks, center, needed, pending, in_flight, falling, selected, now,
                   last_break_time, last_place_time, log>>

\* pop(): None on an empty queue, which it leaves as it is
Pop ==
  /\ queue' = IF queue.pending = <<>> THEN queue ELSE pop(queue)
  /\ probe' = [op |-> "pop", pos |-> pop_returned(queue), before |-> queue]
  /\ UNCHANGED <<chunks, center, needed, pending, in_flight, falling, selected, now,
                 last_break_time, last_place_time, log>>

NextQueue ==
  \/ Enqueue
  \/ EnqueueWithNeighbors
  \/ Pop

SpecQueue == InitQueue /\ [][NextQueue]_vars

----------------------------------------------------------------------------
(* Streaming from a fixed viewpoint, every build task running to its end.  *)
(* probe keeps the camera position.                                        *)

\* The offsets of the window's coordinates from its centre
WindowOffsets == build_needed_chunk_set(<<0, 0, 0>>)

\* The coordinate of the window of the camera at the offset o
CoordAt(o) == Add3(chunk_center_from_camera_pos(probe.pos), o)

InitSettling ==
  /\ chunks = [c \in {<<0, 0, 0>>} |-> ChunkData(new_streaming(c), new_streaming(c))]
  /\ center = <<0, 0, 0>>
  /\ needed = {}
  /\ pending = <<>>
  /\ in_flight = {}
  /\ queue = [pending |-> <<>>, scheduled |-> {}]
  /\ falling = <<>>
  /\ selected = dirt_with_grass
  /\ now = 0
  /\ last_break_time = READY_TIME
  /\ last_place_time = READY_TIME
  /\ log = <<>>
  /\ \E pos \in ViewpointsFixed : probe = [pos |-> pos]

\* chunk_loading_system in a frame in which the poll returns the outputs of
\* the builds in `finished`
TickReturning(finished_of) ==
  \E order \in EnqueueOrders(World, probe.pos) :
    \E w4 \in {TickSchedule(World, probe.pos, order)} :
      \E finished \in {f \in SUBSET w4.in_flight : finished_of \subseteq f} :
         /\ SetWorld(PollAndMerge(w4, finished))
         /\ center' = chunk_center_from_camera_pos(probe.pos)
         /\ UNCHANGED <<queue, falling, selected, now, last_break_time, last_place_time,
                        probe>>

\* A frame with any outcome of the poll
TickSettling == TickReturning({})

\* A frame in which the build of the window coordinate at offset o returns
\* its output
TickFinishing(o) == TickReturning({CoordAt(o)})

NextSettling ==
  \/ TickSettling
  \/ \E o \in WindowOffsets : TickFinishing(o)

\* TickFinishing(o) can run: the build of the coordinate is in flight when
\* the frame polls.  The frame then changes the state, since the coordinate
\* leaves the in-flight map or, started in this frame, the pending queue.
FinishingEnabled(o) ==
  \E order \in EnqueueOrders(World, probe.pos) :
    CoordAt(o) \in TickSchedule(World, probe.pos, order).in_flight

\* Weak fairness of TickFinishing(o), written out
FairFinishing(o) == []<>(~FinishingEnabled(o)) \/ []<><<TickFinishing(o)>>_vars

\* chunk_loading_system runs in every frame and every build task runs to
\* its end on the task pool: each build that is polled frame after frame
\* returns its output in some frame
SpecSettling ==
  InitSettling /\ [][NextSettling]_vars /\ \A o \in WindowOffsets : FairFinishing(o)

----------------------------------------------------------------------------
(* Properties *)

\* The coordinates waiting in the pending queue
PendingSet == SeqToSet(pending)

\* The cell a falling entity's position lies in
EntityCell(e) == world_coord_from_position(e.translation)

\* C1: every chunk coordinate is in at most one of the loaded map, the
\* pending queue and the in-flight map, after any sequence of ticks, breaks,
\* placements and landings.
C1_AtMostOneStatus ==
  \A c \in (DOMAIN chunks) \cup PendingSet \cup in_flight :
    /\ ~(c \in DOMAIN chunks /\ c \in PendingSet)
    /\ ~(c \in DOMAIN chunks /\ c \in in_flight)
    /\ ~(c \in PendingSet /\ c \in in_flight)

\* C2: for every live falling entity, the world cell its position lies in
\* is not solid in the store.
C2_EntityCellNotSolid ==
  \A i \in 1..Len(falling) : ~is_solid_at_world_pos(World, EntityCell(falling[i]))

\* The cells detached by the step taken, in the order of detachment: the
\* log of a run of spawn_falling_blocks_system holds one entry per cell
DetachedCells ==
  [i \in {j \in 1..Len(log') : log'[j][1] = "detach"} |->
     CHOOSE p \in log'[i][2] : TRUE]

TickStep == log' # <<>> /\ log'[1][1] = "sync"

\* The state is the one a run of chunk_loading_system has just produced
AfterTick == log # <<>> /\ log[1][1] = "sync"

\* The builds whose poll returned an output in the tick just taken
Polled(l) == LogOf(l, "merge") \cup LogOf(l, "discard")

\* C4: a completed build is inserted into the loaded map only if its
\* coordinate is in the needed set when it is polled; otherwise it is
\* discarded and the loaded map is unchanged.  In a tick, every polled build
\* inside the window is loaded with its freshly generated chunk, no polled
\* build outside the window is loaded, and every entry of the loaded map that
\* is new or changed is a polled build inside the window.
C4_MergeOnlyIfNeeded ==
  [][TickStep =>
       /\ \A c \in Polled(log') :
            IF c \in needed'
            THEN /\ c \in LogOf(log', "merge")
                 /\ c \in DOMAIN chunks'
                 /\ chunks'[c] = ChunkData(new_streaming(c), new_streaming(c))
            ELSE /\ c \in LogOf(log', "discard")
                 /\ c \notin DOMAIN chunks'
       /\ \A c \in DOMAIN chunks' :
            (c \notin DOMAIN chunks \/ chunks'[c] # chunks[c]) =>
              (c \in needed' /\ c \in LogOf(log', "merge"))
    ]_vars

\* A tick has just merged a finished build
C4_Witness ==
  /\ AfterTick
  /\ LogOf(log, "merge") # {}
  /\ LogOf(log, "merge") \subseteq DOMAIN chunks

\* C5: when the coordinate of an outstanding build drops out of the needed
\* window, the build is not cancelled: it remains outstanding until it
\* completes, and its result is discarded when it is polled.  After a tick
\* whose window no longer holds an in-flight coordinate, the build is still
\* in flight or has been polled and discarded.
C5_BuildOutlivesWindow ==
  [][TickStep =>
       \A c \in in_flight \ needed' :
         c \in in_flight' \/ c \in LogOf(log', "discard")
    ]_vars

\* C5, amended: when the coordinate of an outstanding build drops out of the
\* needed window, the tick that moves the window drops the build task while
\* it synchronises the window: the coordinate leaves the in-flight map, its
\* result is never polled, merged or discarded, and the coordinate ends the
\* tick neither pending nor loaded.
C5_BuildDroppedAtSync ==
  [][TickStep =>
       \A c \in in_flight \ needed' :
         /\ c \in LogOf(log', "cancel")
         /\ c \notin in_flight'
         /\ c \notin Polled(log')
         /\ c \notin PendingSet'
         /\ c \notin DOMAIN chunks'
    ]_vars

\* A tick has just dropped a build task whose coordinate left the window
C5_Witness ==
  /\ AfterTick
  /\ LogOf(log, "cancel") # {}
  /\ LogOf(log, "cancel") \cap (needed \cup in_flight) = {}

\* C6: the number of in-flight builds never exceeds MAX_IN_FLIGHT, and no
\* tick starts more than LOADS_PER_FRAME builds.  The count is bounded in
\* every state and also inside a tick, between the start of the new builds
\* and the poll (the builds then in flight are those left plus those polled).
C6_BuildCaps ==
  /\ Cardinality(in_flight) <= MAX_IN_FLIGHT
  /\ AfterTick =>
       /\ Cardinality(LogOf(log, "start")) <= LOADS_PER_FRAME
       /\ Cardinality(in_flight \cup Polled(log)) <= MAX_IN_FLIGHT

\* A tick has started LOADS_PER_FRAME builds and left MAX_IN_FLIGHT builds
\* outstanding while a coordinate still waits in the queue
C6_Witness ==
  /\ AfterTick
  /\ Cardinality(LogOf(log, "start")) = LOADS_PER_FRAME
  /\ Cardinality(in_flight) = MAX_IN_FLIGHT
  /\ pending # <<>>

\* C7: after the eviction pass of a tick, no chunk outside the needed set
\* remains loaded.
C7_NoUnneededLoaded ==
  AfterTick => \A c \in DOMAIN chunks : c \in needed

\* C7, amended: after a tick, no chunk of the streaming layers
\* (0 <= Y < VERTICAL_CHUNK_LAYERS) outside the needed set remains loaded;
\* every loaded chunk that was outside the needed set in those layers is in
\* the tick's eviction pass.
C7_NoUnneededLoadedInBand ==
  [][TickStep =>
       /\ \A c \in DOMAIN chunks' :
            (c[2] >= 0 /\ c[2] < VERTICAL_CHUNK_LAYERS) => c \in needed'
       /\ \A c \in DOMAIN chunks :
            (c[2] >= 0 /\ c[2] < VERTICAL_CHUNK_LAYERS /\ c \notin needed') =>
              c \in LogOf(log', "evict")
    ]_vars

\* A tick has just evicted a chunk that left the window
C7_Witness ==
  /\ AfterTick
  /\ LogOf(log, "evict") # {}
  /\ LogOf(log, "evict") \cap DOMAIN chunks = {}

\* C8: a tick never evicts a loaded chunk whose Y lies outside
\* [0, VERTICAL_CHUNK_LAYERS): it stays loaded, voxels and mesh unchanged.
C8_OutOfBandChunkStays ==
  [][TickStep =>
       \A c \in DOMAIN chunks :
         (c[2] < 0 \/ c[2] >= VERTICAL_CHUNK_LAYERS) =>
           /\ c \in DOMAIN chunks'
           /\ chunks'[c] = chunks[c]
           /\ c \notin LogOf(log', "evict")
    ]_vars

\* A tick that evicted a chunk has left a chunk above the streaming layers
\* loaded, outside the needed set
C8_Witness ==
  /\ AfterTick
  /\ LogOf(log, "evict") # {}
  /\ \E c \in DOMAIN chunks : c[2] >= VERTICAL_CHUNK_LAYERS /\ c \notin needed

StepNames(l) == [i \in 1..Len(l) |-> l[i][1]]

\* C10: within one tick the order is: synchronise the needed window, enqueue
\* the missing coordinates, evict, start builds, poll and merge.  Every
\* eviction happens before any build start, and merging is last.  The
\* enqueue and the eviction are decided against the window the tick has
\* just synchronised, the builds started come from the queue as the enqueue
\* left it, and the poll sees the builds started in the same tick.
C10_TickOrder ==
  [][TickStep =>
       /\ StepNames(log') =
            <<"sync", "cancel", "enqueue", "evict", "start", "merge", "discard">>
       /\ LogOf(log', "enqueue") =
            {c \in needed' : c \notin DOMAIN chunks /\ c \notin PendingSet /\ c \notin in_flight}
       /\ LogOf(log', "evict") =
            {c \in DOMAIN chunks : c[2] >= 0 /\ c[2] < VERTICAL_CHUNK_LAYERS /\ c \notin needed'}
       /\ LogOf(log', "start") \subseteq (PendingSet \cap needed') \cup LogOf(log', "enqueue")
       /\ Polled(log') \subseteq (in_flight \cap needed') \cup LogOf(log', "start")
       /\ LogOf(log', "merge") \subseteq DOMAIN chunks'
    ]_vars

\* A tick has evicted a chunk, started a build and merged that same build
C10_Witness ==
  /\ AfterTick
  /\ LogOf(log, "evict") # {}
  /\ LogOf(log, "start") \cap LogOf(log, "merge") # {}

\* C11: at the end of every tick that has a viewpoint, every coordinate of
\* the needed set is loaded, pending or in flight.
C11_NeededScheduled ==
  AfterTick => \A c \in needed : c \in (DOMAIN chunks) \cup PendingSet \cup in_flight

\* A tick has ended with needed coordinates in each of the three collections
C11_Witness ==
  /\ AfterTick
  /\ needed \cap DOMAIN chunks # {}
  /\ needed \cap PendingSet # {}
  /\ needed \cap in_flight # {}
  /\ LogOf(log, "enqueue") # {}

C13_OneChunkMoveSwapsEdgeSlabs ==
  [][\A a \in {1, 3} :
       \A d \in {-1, 1} :
         (center'[a] = center[a] + d /\ center'[4 - a] = center[4 - a]) =>
           LET entered == needed' \ needed
               exited == needed \ needed'
               lead == IF d = 1 THEN CHOOSE m \in {c[a] : c \in needed'} :
                                       \A c \in needed' : c[a] <= m
                                ELSE CHOOSE m \in {c[a] : c \in needed'} :
                                       \A c \in needed' : c[a] >= m
               trail == IF d = 1 THEN CHOOSE m \in {c[a] : c \in needed} :
                                        \A c \in needed : c[a] >= m
                                 ELSE CHOOSE m \in {c[a] : c \in needed} :
                                        \A c \in needed : c[a] <= m
               width == Cardinality({c[4 - a] : c \in needed'})
           IN /\ entered = {c \in needed' : c[a] = lead}
              /\ exited = {c \in needed : c[a] = trail}
              /\ Cardinality(entered) = width * VERTICAL_CHUNK_LAYERS
              /\ Cardinality(exited) = width * VERTICAL_CHUNK_LAYERS
              /\ width = 2 * VIEW_DISTANCE
              /\ (needed \cup needed') \ (entered \cup exited) = needed \cap needed'
              /\ needed \cap needed' # {}
    ]_vars

\* The camera has just crossed into the next chunk column along Z
C13_Witness ==
  /\ probe # NoProbe
  /\ probe.moved_from[3] + 1 = center[3]
  /\ probe.moved_from[1] = center[1]
  /\ needed \ build_needed_chunk_set(probe.moved_from) # {}

\* C14: for every world block coordinate p, negative components included,
\* world_to_chunk_local(p) = (chunk, local) satisfies
\* chunk * CHUNK_SIZE + local = p with every component of local in
\* 0 .. CHUNK_SIZE - 1, and (chunk, local) is the only pair with an
\* in-bounds local that does: the mapping is a bijection between world
\* coordinates and (chunk, in-bounds local) pairs.
C14_ChunkLocalRoundTrip ==
  \A a \in 1..3 :
    LET x == probe.world_pos[a]
        c == probe.out.chunk[a]
        l == probe.out.local[a]
    IN /\ c * CHUNK_SIZE + l = x
       /\ 0 <= l /\ l < CHUNK_SIZE
       /\ in_bounds(probe.out.local)
       /\ \A c2 \in (-(MaxCoord + 2))..(MaxCoord + 2), l2 \in 0..(CHUNK_SIZE - 1) :
            c2 * CHUNK_SIZE + l2 = x => (c2 = c /\ l2 = l)

\* A coordinate with negative components that are no multiples of
\* CHUNK_SIZE has been split
C14_Witness ==
  /\ probe.world_pos = <<-1, -3, 2>>
  /\ probe.out.chunk = <<-1, -2, 1>>
  /\ probe.out.local = <<1, 1, 0>>

\* C15: after set_block(l, B) at an in-bounds local coordinate l,
\* get_block(l) returns B and every other cell is unchanged; set_block at an
\* out-of-bounds l changes no cell, and get_block at an out-of-bounds l
\* returns Air.
C15_GetAfterSet ==
  probe.writes > 0 =>
    LET l == probe.local
        inside == \A a \in 1..3 : 0 <= l[a] /\ l[a] < CHUNK_SIZE
    IN /\ Len(probe.chunk) = Len(probe.before)
       /\ inside =>
            /\ probe.read = probe.block
            /\ \A l2 \in Locals \ {l} :
                 get_block(probe.chunk, l2) = get_block(probe.before, l2)
       /\ ~inside =>
            /\ probe.chunk = probe.before
            /\ probe.read = air

\* A second write has changed its own cell and left the first write's cell
\* as it was, and an out-of-bounds write has been made
C15_Witness ==
  /\ probe.writes = 2
  /\ probe.local = <<1, 0, 0>>
  /\ probe.block = dirt
  /\ get_block(probe.chunk, <<0, 1, 0>>) = Block("Sand", "PosY")
  /\ get_block(probe.before, <<1, 0, 0>>) = air

\* An out-of-bounds write has been made to a chunk that holds a block
C15_WitnessOutside ==
  /\ probe.writes = 2
  /\ probe.local = <<-1, 1, CHUNK_SIZE>>
  /\ probe.block = dirt
  /\ probe.before # new_empty

\* Cell of the i-th sample of the ray of a viewpoint
SampleOf(view, i) == RaySample(view.pos, view.dir, view.norm, i)

\* Indices of the samples of the ray of a viewpoint whose cell lies in a
\* loaded chunk and is solid, in the store the handler starts from
SolidSamples(view) ==
  {i \in 0..(RaySteps - 1) : is_solid_at_world_pos(World, SampleOf(view, i))}

\* C16: raymarch_hit_and_last_empty samples the ray at origin +
\* direction * (i * RAY_STEP) for i = 0, 1, ... below max_distance / RAY_STEP.
\* It returns as hit the first sampled cell that is solid and stops there;
\* last_empty is the cell sampled just before it, whether non-solid or in
\* an unloaded chunk, and is None when the very first sample is solid; when
\* no sample is solid, hit is None and last_empty is the last cell sampled.
\* hit and last_empty are never the same cell.
C16_RaymarchFirstSolid ==
  [][probe'.op = "interact" =>
       LET view == probe'.view
           ray == probe'.ray
           solid == SolidSamples(view)
       IN /\ solid = {} =>
               /\ ray.hit = NoCell
               /\ ray.last_empty = SampleOf(view, RaySteps - 1)
          /\ solid # {} =>
               LET k == CHOOSE i \in solid : \A j \in solid : i <= j
               IN /\ ray.hit = SampleOf(view, k)
                  /\ k = 0 => ray.last_empty = NoCell
                  /\ k > 0 => /\ ray.last_empty = SampleOf(view, k - 1)
                             /\ ~is_solid_at_world_pos(World, ray.last_empty)
          /\ ray.hit # ray.last_empty]_vars

\* A ray has hit a solid cell after a sample in a loaded chunk's non-solid
\* cell
C16_Witness ==
  /\ probe # NoProbe
  /\ probe.op = "interact"
  /\ probe.ray.hit = <<1, 0, 0>>
  /\ probe.ray.last_empty = <<1, 1, 0>>

\* A ray has started inside a solid cell
C16_WitnessFirstSolid ==
  /\ probe # NoProbe
  /\ probe.op = "interact"
  /\ probe.ray.hit # NoCell
  /\ probe.ray.last_empty = NoCell

\* A ray has hit a solid cell after a sample in an unloaded chunk
C16_WitnessUnloaded ==
  /\ probe # NoProbe
  /\ probe.op = "interact"
  /\ probe.ray.hit = <<1, 1, 0>>
  /\ probe.ray.last_empty = <<2, 2, 0>>
  /\ world_to_chunk_local(<<2, 2, 0>>).chunk \notin DOMAIN chunks

\* A ray has ended without a hit
C16_WitnessNoHit ==
  /\ probe # NoProbe
  /\ probe.op = "interact"
  /\ probe.ray.hit = NoCell
  /\ probe.ray.last_empty # NoCell

\* The cells of the loaded chunks other than cell p, and the chunks other
\* than p's with their meshes, are in the next state what they are now
OnlyCellChanged(p) ==
  LET own == world_to_chunk_local(p)
  IN /\ DOMAIN chunks' = DOMAIN chunks
     /\ \A c \in DOMAIN chunks :
          /\ c # own.chunk => chunks'[c] = chunks[c]
          /\ \A l \in Locals :
               (c # own.chunk \/ l # own.local) =>
                 get_block(chunks'[c].chunk, l) = get_block(chunks[c].chunk, l)

\* C17: break_block(p) changes the world only when p's chunk is loaded and
\* the block at p is interactable (Dirt, DirtWithGrass or Sand): it then
\* returns true, cell p reads Air afterwards, no other cell changes and
\* only p's chunk has its mesh rebuilt, from the voxels it now holds.
\* Otherwise it returns false and voxels, loaded chunks and meshes are
\* unchanged.
C17_BreakOnlyLoadedInteractable ==
  [][probe'.op = "break_block" =>
       LET p == probe'.target_world
           own == world_to_chunk_local(p)
           loaded == own.chunk \in DOMAIN chunks
           breakable ==
             /\ loaded
             /\ get_block(chunks[own.chunk].chunk, own.local).kind
                  \in {"Dirt", "DirtWithGrass", "Sand"}
       IN /\ probe'.ok = breakable
          /\ breakable =>
               /\ get_block(chunks'[own.chunk].chunk, own.local) = air
               /\ chunks'[own.chunk].mesh = chunks'[own.chunk].chunk
               /\ OnlyCellChanged(p)
          /\ ~breakable => chunks' = chunks
          /\ UNCHANGED <<needed, pending, in_flight, queue, falling>>]_vars

\* break_block has returned true for a cell of the origin chunk while a
\* second chunk was loaded
C17_Witness ==
  /\ probe # NoProbe
  /\ probe.op = "break_block"
  /\ probe.ok
  /\ probe.target_world = <<1, 0, 0>>
  /\ <<0, 1, 0>> \in DOMAIN chunks
  /\ get_block_world(World, <<1, 2, 0>>) # air

\* break_block has returned false for a cell of an unloaded chunk
C17_WitnessUnloaded ==
  /\ probe # NoProbe
  /\ probe.op = "break_block"
  /\ ~probe.ok
  /\ world_to_chunk_local(probe.target_world).chunk \notin DOMAIN chunks

\* break_block has returned false for an Air cell of a loaded chunk
C17_WitnessAir ==
  /\ probe # NoProbe
  /\ probe.op = "break_block"
  /\ ~probe.ok
  /\ get_block_world(World, probe.target_world) = air

\* The interiors of the player's collider box and of the box of cell p share
\* a point: on every axis the larger of the two lower ends is below the
\* smaller of the two upper ends
Overlaps(player, p) ==
  \A a \in 1..3 :
    LET lo1 == player.pos[a] - player.half_size[a]
        hi1 == player.pos[a] + player.half_size[a]
        lo2 == p[a] * BLOCK_SIZE
        hi2 == (p[a] + 1) * BLOCK_SIZE
    IN (IF lo1 > lo2 THEN lo1 ELSE lo2) < (IF hi1 < hi2 THEN hi1 ELSE hi2)

\* The step is a call of block_interaction_system that reaches place_block:
\* the right button is usable and the ray has a hit and a last_empty next
\* to it
ReachesPlaceBlock ==
  /\ probe'.op = "interact"
  /\ can_with_button(probe'.right, last_place_time)
  /\ probe'.ray.hit # NoCell
  /\ probe'.ray.last_empty # NoCell
  /\ is_face_neighbor(probe'.ray.hit, probe'.ray.last_empty)

\* C19: a placement whose target cell overlaps the player's collider box
\* strictly on all three axes is rejected: place_block returns false, and
\* voxels, loaded chunks, meshes, the propagation queue and the place
\* cooldown are unchanged; a target cell that does not overlap the collider
\* is not rejected: place_block returns true and the cell holds the block.
C19_OverlapRejected ==
  [][/\ probe'.op = "place_block" =>
          LET p == probe'.target_world
              overlap == Overlaps(probe'.view.player, p)
          IN /\ probe'.ok = ~overlap
             /\ overlap => UNCHANGED <<chunks, needed, pending, in_flight, queue,
                                       last_place_time>>
             /\ ~overlap => get_block_world(World', p).kind = selected.kind
     /\ ReachesPlaceBlock =>
          LET p == probe'.ray.last_empty
              overlap == Overlaps(probe'.view.player, p)
          IN /\ overlap =>
                  /\ last_place_time' = last_place_time
                  /\ LogOf(log', "place") = {}
                  /\ get_block_world(World', p) = get_block_world(World, p)
                  /\ ~can_with_button(probe'.left, last_break_time) =>
                       UNCHANGED <<chunks, needed, pending, in_flight, queue>>
             /\ ~overlap =>
                  /\ last_place_time' = now
                  /\ get_block_world(World', p).kind = selected'.kind
                  /\ p \in queue'.scheduled]_vars

\* block_interaction_system has reached place_block with a target cell in
\* the player's collider box, the left button not pressed
C19_Witness ==
  /\ probe # NoProbe
  /\ probe.op = "interact"
  /\ probe.right /\ ~probe.left
  /\ probe.ray.hit # NoCell
  /\ probe.ray.last_empty # NoCell
  /\ is_face_neighbor(probe.ray.hit, probe.ray.last_empty)
  /\ Overlaps(probe.view.player, probe.ray.last_empty)
  /\ last_place_time = READY_TIME

\* place_block has returned false
C19_WitnessRejected ==
  /\ probe # NoProbe
  /\ probe.op = "place_block"
  /\ ~probe.ok

\* place_block has returned true for a cell whose box touches the player's
\* collider box
C19_WitnessTouching ==
  /\ probe # NoProbe
  /\ probe.op = "place_block"
  /\ probe.ok
  /\ probe.view.player.pos[2] - probe.view.player.half_size[2]
       = (probe.target_world[2] + 1) * BLOCK_SIZE

\* Sum of the absolute differences of the components of two cells
Manhattan(p, q) == Abs(p[1] - q[1]) + Abs(p[2] - q[2]) + Abs(p[3] - q[3])

\* C20: block_interaction_system writes a placed block only when the
\* raymarch returned both a hit cell and a last_empty cell at Manhattan
\* distance exactly 1; the block is written to the last_empty cell and
\* never to the hit cell.  A call that places nothing loads no chunk and
\* turns no cell into a block.
C20_PlaceOnlyOnFaceNeighbour ==
  [][probe'.op = "interact" =>
       LET hit == probe'.ray.hit
           last_empty == probe'.ray.last_empty
           placed == LogOf(log', "place")
       IN /\ placed # {} =>
               /\ hit # NoCell
               /\ last_empty # NoCell
               /\ Manhattan(hit, last_empty) = 1
               /\ placed = {last_empty}
               /\ hit \notin placed
               /\ get_block_world(World', last_empty).kind = selected'.kind
               /\ get_block_world(World', hit) \in {get_block_world(World, hit), air}
               /\ last_place_time' = now
          /\ placed = {} =>
               /\ DOMAIN chunks' = DOMAIN chunks
               /\ \A c \in DOMAIN chunks, l \in Locals :
                    get_block(chunks'[c].chunk, l)
                      \in {get_block(chunks[c].chunk, l), air}
               /\ last_place_time' = last_place_time]_vars

\* A block has been placed on the face of the hit cell the ray came through
C20_Witness ==
  /\ probe # NoProbe
  /\ probe.op = "interact"
  /\ LogOf(log, "place") = {probe.ray.last_empty}
  /\ Manhattan(probe.ray.hit, probe.ray.last_empty) = 1
  /\ get_block_world(World, probe.ray.last_empty).kind = selected.kind

\* The right button was usable and the ray returned a hit and a last_empty
\* across an edge of it: nothing has been placed
C20_WitnessAcrossEdge ==
  /\ probe # NoProbe
  /\ probe.op = "interact"
  /\ probe.right
  /\ last_place_time = READY_TIME
  /\ probe.ray.hit # NoCell
  /\ probe.ray.last_empty # NoCell
  /\ Manhattan(probe.ray.hit, probe.ray.last_empty) = 2

\* C18 as stated: breaking an interactable block never increases the
\* triangle count of the owning chunk's mesh: after the break and the
\* rebuild the count is smaller than before or equal to it.
C18_BreakNeverAddsTriangles ==
  probe.breaks > 0 => probe.triangles <= probe.triangles_before

\* C18 amended: breaking an interactable block changes the triangle count
\* of the owning chunk's mesh by 4 * s - 12, where s is the number of face
\* neighbours of the broken cell that are solid and lie in the same chunk:
\* the block's own 6 - s quads go and s quads of its neighbours appear.
\* The count falls for s <= 2, is equal for s = 3 and rises for s >= 4.
C18_BreakChangesTrianglesByNeighbours ==
  probe.breaks > 0 =>
    /\ probe.triangles - probe.triangles_before = 4 * probe.solid_neighbors - 12
    /\ probe.solid_neighbors <= 2 => probe.triangles < probe.triangles_before
    /\ probe.solid_neighbors = 3 => probe.triangles = probe.triangles_before
    /\ probe.solid_neighbors >= 4 => probe.triangles > probe.triangles_before

\* The block in the middle of a full chunk has been broken: twelve
\* triangles more than before
C18_Witness ==
  /\ probe.breaks = 1
  /\ probe.broken = <<1, 1, 1>>
  /\ probe.solid_neighbors = 6
  /\ probe.triangles = probe.triangles_before + 12

\* A block with at most two solid neighbours has been broken: fewer
\* triangles than before
C18_WitnessFewer ==
  /\ probe.breaks > 0
  /\ probe.solid_neighbors <= 2
  /\ probe.triangles < probe.triangles_before

\* The clock readings of the sequence t, oldest first, are pairwise at
\* least the cooldown interval apart
Spaced(t) ==
  \A i \in 1..Len(t) : \A j \in (i + 1)..Len(t) :
    t[j] - t[i] >= INTERACTION_COOLDOWN_SECS

\* Nothing in the sequence t of clock readings is less than the cooldown
\* interval before the present reading
Ready(t) == \A i \in 1..Len(t) : now - t[i] >= INTERACTION_COOLDOWN_SECS

\* C21: break and place are rate-limited by independent cooldown timers.
\* Any two successful breaks are at least the cooldown interval apart in
\* simulation time, and any two successful placements likewise.  Whether a
\* call breaks depends on the left button, the earlier breaks and the ray's
\* hit only, and whether it places depends on the right button, the
\* earlier placements and the ray's cells only: a break never delays a
\* placement, nor a placement a break.
C21_IndependentCooldowns ==
  [][now' = now =>
       LET view == probe'.view
           hit == probe'.ray.hit
           last_empty == probe'.ray.last_empty
           broke == Len(probe'.break_times) > Len(probe.break_times)
           placed == Len(probe'.place_times) > Len(probe.place_times)
       IN /\ Spaced(probe'.break_times)
          /\ Spaced(probe'.place_times)
          /\ broke <=> /\ probe'.left
                       /\ Ready(probe.break_times)
                       /\ hit # NoCell
          /\ placed <=> /\ probe'.right
                        /\ Ready(probe.place_times)
                        /\ hit # NoCell
                        /\ last_empty # NoCell
                        /\ Manhattan(hit, last_empty) = 1
                        /\ ~Overlaps(view.player, last_empty)]_vars

\* A block has been placed one clock tick after a break, and a block has
\* been broken one tick after a placement
C21_Witness ==
  /\ \E i \in 1..Len(probe.break_times), j \in 1..Len(probe.place_times) :
       probe.place_times[j] - probe.break_times[i] = 1
  /\ \E i \in 1..Len(probe.break_times), j \in 1..Len(probe.place_times) :
       probe.break_times[i] - probe.place_times[j] = 1

\* Two blocks have been broken exactly the cooldown interval apart
C21_WitnessTwoBreaks ==
  /\ Len(probe.break_times) = 2
  /\ probe.break_times[2] - probe.break_times[1] = INTERACTION_COOLDOWN_SECS

\* C22: a Sand block with an Air cell directly beneath it is classified by
\* should_start_falling as a falling candidate, while Dirt, DirtWithGrass
\* and Air in the same configuration are not: Air is neither solid nor
\* stable, Dirt and DirtWithGrass are solid and stable, Sand is solid and
\* not stable.
C22_SandOverAirFalls ==
  /\ ~is_solid(air) /\ ~is_stable(air)
  /\ is_solid(dirt) /\ is_stable(dirt)
  /\ is_solid(dirt_with_grass) /\ is_stable(dirt_with_grass)
  /\ is_solid(sand) /\ ~is_stable(sand)
  /\ (probe.block.kind = "Sand" /\ probe.below = air) => probe.out
  /\ probe.block.kind \in {"Air", "Dirt", "DirtWithGrass"} => ~probe.out
  /\ probe.out <=> /\ probe.block.kind = "Sand"
                   /\ probe.world_pos[2] >= 1
                   /\ probe.below \in {air, NoBlock}

\* A Sand block over an Air cell of a loaded chunk has been classified
C22_Witness ==
  /\ probe.block.kind = "Sand"
  /\ probe.below = air
  /\ <<0, 0, 0>> \in DOMAIN chunks
  /\ probe.out

\* A Dirt block over an Air cell of a loaded chunk has been classified
C22_WitnessDirt ==
  /\ probe.block.kind = "Dirt"
  /\ probe.below = air
  /\ <<0, 0, 0>> \in DOMAIN chunks
  /\ ~probe.out

\* The cell watched for an unsupported block: the cell on top of column
\* x = 1 of the origin chunk, which lies in chunk (0,1,0)
CellsWatched == {<<1, 2, 0>>}

\* Cell p of a loaded chunk holds a solid, unstable block, there is a cell
\* below it, and that cell is not solid: Air in a loaded chunk, or in no
\* loaded chunk
Unsupported(p) ==
  LET b == get_block_world(World, p)
      below == get_block_world(World, Add3(p, <<0, -1, 0>>))
  IN /\ b # NoBlock
     /\ b.kind = "Sand"
     /\ p[2] >= 1
     /\ below = NoBlock \/ below.kind = "Air"

\* As Unsupported, the cell below being an Air cell of a loaded chunk
UnsupportedOverAir(p) ==
  /\ Unsupported(p)
  /\ get_block_world(World, Add3(p, <<0, -1, 0>>)) = air

\* C23: whenever a loaded cell holds a solid, unstable block and the cell
\* directly below it is empty, that block is eventually detached into a
\* falling entity, the falling systems running in every frame, whatever
\* breaks, placements, landings and streaming ticks led there.
C23_UnsupportedEventuallyDetached ==
  \A p \in CellsWatched : Unsupported(p) ~> ~Unsupported(p)

\* The same for a block over an Air cell of a loaded chunk
C23_OverAirEventuallyDetached ==
  \A p \in CellsWatched : UnsupportedOverAir(p) ~> ~UnsupportedOverAir(p)

\* The cells a support re-evaluation around p covers: p, its four horizontal
\* neighbours and the cell above
Neighbourhood(p) ==
  {p, Add3(p, <<1, 0, 0>>), Add3(p, <<-1, 0, 0>>), Add3(p, <<0, 1, 0>>),
   Add3(p, <<0, 0, 1>>), Add3(p, <<0, 0, -1>>)}

\* The cells of the steps named `step` in the handler that has just run
Events(step) == LogOf(log', step)

C24_Witness ==
  /\ LogOf(log, "break") # {}
  /\ \A p \in LogOf(log, "break") : Neighbourhood(p) \subseteq queue.scheduled

C24_WitnessLanding ==
  /\ LogOf(log, "land") # {}
  /\ LogOf(log, "land") \cap queue.scheduled = {}

\* A step of update_falling_blocks_system that moved or settled an entity
FallStep == falling # <<>> /\ falling' # falling /\ Len(falling') <= Len(falling)

\* The entity e after a tick of length dt in which it did not land
Advanced(e, dt) ==
  LET v == e.velocity_y - GRAVITY * dt
  IN [e EXCEPT !.translation = <<e.translation[1], e.translation[2] + v * dt,
                                 e.translation[3]>>,
               !.velocity_y = v]

\* The cell directly below the position of the entity e
CellBelow(e) == landing_probe(e.translation).below

C25_WitnessInFlight ==
  /\ Len(falling) = 1
  /\ falling[1].velocity_y < 0
  /\ LogOf(log, "land") = {}

\* The chunk coordinate of the world position p: the floor of each component
\* divided by the chunk edge
ChunkOf(p) == <<p[1] \div CHUNK_SIZE, p[2] \div CHUNK_SIZE, p[3] \div CHUNK_SIZE>>

\* C26: world-level lookups never fail on a missing chunk.  For a world
\* position p, set_block_world_loaded(p, B) returns the chunk coordinate of p
\* and makes get_block_world(p) return B exactly when the chunk of p is
\* loaded; when it is not, set_block_world_loaded returns absence and
\* changes nothing, get_block_world returns absence and
\* is_solid_at_world_pos returns false.
C26_LookupsTotal ==
  /\ \A p \in CellsLooked :
        ChunkOf(p) \notin DOMAIN chunks
          => /\ get_block_world(World, p) = NoBlock
             /\ ~is_solid_at_world_pos(World, p)
  /\ (probe # NoProbe /\ probe.op = "set_block_world_loaded")
       => IF ChunkOf(probe.world_pos) \in DOMAIN probe.before
          THEN /\ probe.returned = ChunkOf(probe.world_pos)
               /\ get_block_world(World, probe.world_pos) = probe.block
               /\ DOMAIN chunks = DOMAIN probe.before
          ELSE /\ probe.returned = NoCell
               /\ chunks = probe.before
               /\ get_block_world(World, probe.world_pos) = NoBlock

\* A write into a loaded chunk has returned its coordinate and reads back
C26_Witness ==
  /\ probe # NoProbe
  /\ probe.op = "set_block_world_loaded"
  /\ probe.returned = <<-1, 1, 0>>
  /\ get_block_world(World, probe.world_pos) = probe.block
  /\ chunks # probe.before

\* A write aimed at a chunk that is not loaded, beside a loaded one, has
\* returned absence
C26_WitnessMissing ==
  /\ probe # NoProbe
  /\ probe.op = "set_block_world_loaded"
  /\ probe.returned = NoCell
  /\ DOMAIN chunks # {}
  /\ get_block_world(World, probe.world_pos) = NoBlock

\* C27: a stalled background build only delays its own chunk.  With the
\* viewpoint fixed and one in-flight build that never completes, every other
\* coordinate of the needed set is eventually loaded, and stays loaded.
C27_OthersEventuallyLoaded ==
  <>[](\A coord \in WindowOfView \ {probe.stalled} : coord \in DOMAIN chunks)

\* The stalled build is in flight and every other coordinate of the window
\* is loaded
C27_Witness ==
  /\ probe.stalled # NoCell
  /\ probe.stalled \in in_flight
  /\ probe.stalled \notin DOMAIN chunks
  /\ WindowOfView \ {probe.stalled} \subseteq DOMAIN chunks
  /\ Cardinality(WindowOfView) > 1

\* C28: at every moment, each chunk render entity that has been spawned and
\* not despawned is the entity referenced by a currently loaded chunk.
C28_LiveEntitiesReferenced ==
  /\ DOMAIN probe.entity = DOMAIN chunks
  /\ probe.live = {probe.entity[c] : c \in DOMAIN chunks}

\* The facing along axis i (1 = X, 2 = Y, 3 = Z) with the sign of v
SignedFacing(i, v) ==
  CASE i = 1 -> (IF v >= 0 THEN "PosX" ELSE "NegX")
    [] i = 2 -> (IF v >= 0 THEN "PosY" ELSE "NegY")
    [] i = 3 -> (IF v >= 0 THEN "PosZ" ELSE "NegZ")

\* The facings of the axes among `axes` on which d has its greatest
\* magnitude, each with the sign of its component
GreatestFacings(d, axes) ==
  {SignedFacing(i, d[i]) : i \in {j \in axes : \A k \in axes : Abs(d[j]) >= Abs(d[k])}}

\* C29: with_front_from_direction keeps the kind and snaps the direction to
\* a cardinal facing.  A kind that allows a vertical front gets the axis of
\* greatest magnitude among X, Y and Z with the sign of that component, +Z
\* on the zero vector; DirtWithGrass gets the greater of X and Z only, never
\* +Y or -Y; an Air block comes back unchanged.
C29_FrontSnapsToCardinal ==
  LET b == probe.block
      d == probe.direction
      out == probe.out
  IN /\ out.kind = b.kind
     /\ b.kind = "Air" => out = b
     /\ b.kind \in {"Dirt", "Sand"}
          => IF d = <<0, 0, 0>> THEN out.front = "PosZ"
             ELSE out.front \in GreatestFacings(d, {1, 2, 3})
     /\ b.kind = "DirtWithGrass"
          => /\ out.front \notin {"PosY", "NegY"}
             /\ out.front \in GreatestFacings(d, {1, 3})

\* A Sand block has been turned by a direction that points mostly down
C29_Witness ==
  /\ probe.block.kind = "Sand"
  /\ probe.block.front = "PosX"
  /\ probe.direction = <<1, -2, 1>>
  /\ probe.out = Block("Sand", "NegY")

\* A DirtWithGrass block has been turned by the same direction
C29_WitnessGrass ==
  /\ probe.block.kind = "DirtWithGrass"
  /\ probe.direction = <<1, -2, 1>>
  /\ probe.out = Block("DirtWithGrass", "PosX")

\* The faces to draw: a non-air cell of the chunk and one of the six
\* directions such that the neighbouring cell lies outside the chunk or
\* holds no solid block
VisibleFaces(chunk) ==
  {lf \in MeshLocals \X {FaceDefs[k].normal : k \in 1..Len(FaceDefs)} :
     /\ chunk[mesh_index(lf[1]) + 1].kind # "Air"
     /\ ~ /\ Add3(lf[1], lf[2]) \in MeshLocals
          /\ is_solid(chunk[mesh_index(Add3(lf[1], lf[2])) + 1])}

\* C30: build_chunk_mesh_data emits a face for a non-air voxel and one of
\* the six directions exactly when the neighbouring cell in the same chunk
\* is not solid, a neighbour outside the chunk counting as not solid; each
\* emitted face adds exactly 4 vertices and the 6 indices of the triangles
\* 0-1-2 and 0-2-3.
C30_FacesCulledAndIndexed ==
  LET data == probe.data
      n == Len(data.faces)
  IN /\ {data.faces[k] : k \in 1..n} = VisibleFaces(probe.chunk)
     /\ Cardinality(VisibleFaces(probe.chunk)) = n
     /\ build_chunk_mesh_data(probe.chunk) = VisibleFaces(probe.chunk)
     /\ Len(data.positions) = 4 * n
     /\ Len(data.normals) = 4 * n
     /\ Len(data.indices) = 6 * n
     /\ \A k \in 1..n :
          LET s == 4 * (k - 1)
              local == data.faces[k][1]
              normal == data.faces[k][2]
          IN /\ [j \in 1..6 |-> data.indices[6 * (k - 1) + j]]
                  = <<s, s + 1, s + 2, s, s + 2, s + 3>>
             /\ \A j \in 1..4 :
                  /\ data.normals[s + j] = normal
                  /\ \A a \in 1..3 :
                       /\ data.positions[s + j][a] - local[a] * BLOCK_SIZE \in {0, BLOCK_SIZE}
                       /\ normal[a] = 1
                            => data.positions[s + j][a] = (local[a] + 1) * BLOCK_SIZE
                       /\ normal[a] = -1
                            => data.positions[s + j][a] = local[a] * BLOCK_SIZE
             /\ Cardinality({data.positions[s + j] : j \in 1..4}) = 4

\* A block has been broken inside the chunk: the mesh has faces on the chunk
\* boundary, a face toward the emptied cell, and a covered face left out
C30_Witness ==
  /\ probe.broken # NoCell
  /\ \E k \in 1..Len(probe.data.faces) :
       Add3(probe.data.faces[k][1], probe.data.faces[k][2]) \notin MeshLocals
  /\ \E k \in 1..Len(probe.data.faces) :
       Add3(probe.data.faces[k][1], probe.data.faces[k][2]) = probe.broken
  /\ \E l \in MeshLocals, k \in 1..Len(FaceDefs) :
       /\ ~is_air(probe.chunk[mesh_index(l) + 1])
       /\ <<l, FaceDefs[k].normal>> \notin VisibleFaces(probe.chunk)

\* The candidate position of the move along axis from st
CandidateOf(st, axis, dt) == [st.pos EXCEPT ![axis] = @ + st.vel[axis] * dt]

\* The motion state resolve_motion_axes hands to the move along axis: the
\* X move starts from the call's state, the Z move from the X result, the
\* Y move from the X and Z results
EnteringAxis(axis) ==
  LET st == [pos |-> probe.pos, vel |-> probe.vel]
  IN IF axis = 1 THEN st
     ELSE IF axis = 3
     THEN [pos |-> <<probe.out.pos[1], probe.pos[2], probe.pos[3]>>,
           vel |-> <<probe.out.vel[1], probe.vel[2], probe.vel[3]>>]
     ELSE [pos |-> <<probe.out.pos[1], probe.pos[2], probe.out.pos[3]>>,
           vel |-> <<probe.out.vel[1], probe.vel[2], probe.out.vel[3]>>]

\* C31: with the crouch edge guard enabled, resolve_motion_axes rejects a
\* horizontal (X or Z) move whose candidate position has no ground support:
\* the position on that axis is unchanged and that axis' velocity becomes
\* 0; with the guard disabled the same collision-free move is applied; the
\* vertical (Y) move is never subject to the guard.
C31_GuardRejectsUnsupportedHorizontal ==
  /\ \A axis \in {1, 3} :
       LET st == EnteringAxis(axis)
           candidate == CandidateOf(st, axis, probe.dt)
       IN (/\ candidate # st.pos
           /\ ~intersects_solid(World, candidate, STAND_HALF_SIZE))
          => /\ (probe.guard /\ ~has_ground_support(World, candidate, STAND_HALF_SIZE))
                  => /\ probe.out.pos[axis] = probe.pos[axis]
                     /\ probe.out.vel[axis] = 0
             /\ ~probe.guard
                  => /\ probe.out.pos[axis] = candidate[axis]
                     /\ probe.out.vel[axis] = probe.vel[axis]
  /\ LET st == EnteringAxis(2)
         candidate == CandidateOf(st, 2, probe.dt)
     IN (/\ candidate # st.pos
         /\ ~intersects_solid(World, candidate, STAND_HALF_SIZE))
        => /\ probe.out.pos[2] = candidate[2]
           /\ probe.out.vel[2] = probe.vel[2]

\* A guarded step along X from the edge of the platform toward the void is
\* rejected
C31_Witness ==
  /\ probe.guard
  /\ probe.vel[1] # 0
  /\ ~intersects_solid(World, CandidateOf(EnteringAxis(1), 1, probe.dt), STAND_HALF_SIZE)
  /\ ~has_ground_support(World, CandidateOf(EnteringAxis(1), 1, probe.dt), STAND_HALF_SIZE)
  /\ probe.out.pos[1] = probe.pos[1]
  /\ probe.out.vel[1] = 0

\* The same step without the guard leaves the platform, and a guarded frame
\* over the void still moves vertically
C31_WitnessUnguarded ==
  /\ ~probe.guard
  /\ probe.vel[1] # 0
  /\ ~has_ground_support(World, CandidateOf(EnteringAxis(1), 1, probe.dt), STAND_HALF_SIZE)
  /\ probe.out.pos[1] # probe.pos[1]

C31_WitnessVertical ==
  /\ probe.guard
  /\ ~has_ground_support(World, CandidateOf(EnteringAxis(2), 2, probe.dt), STAND_HALF_SIZE)
  /\ probe.out.pos[2] # probe.pos[2]

\* C32: merging a finished build never replaces a chunk that is already
\* loaded at that coordinate: no streaming tick changes the voxels of a
\* chunk that stays loaded, so a voxel written by a break, a placement or a
\* landing keeps its value until another write or the eviction of its chunk.
C32_TickKeepsLoadedVoxels ==
  [][TickStep =>
       \A coord \in (DOMAIN chunks) \cap (DOMAIN chunks') :
         chunks'[coord].chunk = chunks[coord].chunk]_vars

\* C33: the falling propagation queue is deduplicated: after any sequence
\* of enqueue, enqueue_with_neighbors and pop, no position occurs twice in
\* the pending queue and the scheduled set equals the set of positions in
\* the pending queue.
C33_QueueDeduplicated ==
  /\ \A i, j \in 1..Len(queue.pending) : queue.pending[i] = queue.pending[j] => i = j
  /\ queue.scheduled = SeqToSet(queue.pending)

\* A position already waiting has been enqueued again, behind others, and
\* the queue is as before
C33_Witness ==
  /\ probe # NoProbe
  /\ probe.op = "enqueue"
  /\ probe.pos \in probe.before.scheduled
  /\ Len(probe.before.pending) >= 2
  /\ queue = probe.before

\* enqueue_with_neighbors has added only the neighbours not yet waiting, and
\* a pop has returned the head
C33_WitnessNeighbours ==
  /\ probe # NoProbe
  /\ probe.op = "enqueue_with_neighbors"
  /\ probe.before.scheduled # {}
  /\ Len(queue.pending) - Len(probe.before.pending) \in 1..5

C33_WitnessPop ==
  /\ probe # NoProbe
  /\ probe.op = "pop"
  /\ probe.pos # NoCell
  /\ probe.pos \notin queue.scheduled
  /\ queue.pending # <<>>

\* C34: at the end of every streaming tick every coordinate in the pending
\* queue or in the in-flight map is in the needed set.
C34_ScheduledWithinNeeded ==
  AfterTick => (PendingSet \cup in_flight) \subseteq needed

\* A tick has moved the window: it dropped a waiting coordinate and a build
\* task of the old window, and coordinates of the new one wait and build
C34_Witness ==
  /\ AfterTick
  /\ LogOf(log, "sync") # {}
  /\ LogOf(log, "cancel") # {}
  /\ pending # <<>>
  /\ in_flight # {}

\* C35: if the viewpoint stays in one chunk and every started build
\* eventually completes, then every coordinate of the needed set eventually
\* becomes loaded and stays loaded while the viewpoint does not move, and the
\* pending queue and in-flight map eventually become empty.
C35_WindowEventuallyLoaded ==
  <>[](/\ needed = WindowOfView
       /\ needed \subseteq DOMAIN chunks
       /\ pending = <<>>
       /\ in_flight = {})

\* The window is loaded by a frame that merged the last build, nothing waits
\* and nothing builds
C35_Witness ==
  /\ needed = WindowOfView
  /\ needed \subseteq DOMAIN chunks
  /\ Cardinality(needed) > 1
  /\ LogOf(log, "merge") # {}
  /\ pending = <<>>
  /\ in_flight = {}

C36_VoidEntityKeepsFalling ==
  [][FallStep =>
       \A i \in 1..Len(falling) :
         falling[i].translation[2] < BLOCK_SIZE
           => \E j \in 1..Len(falling') :
                /\ falling'[j].block = falling[i].block
                /\ falling'[j].translation[2] < falling[i].translation[2]]_vars

\* C37: settling a falling block never overwrites an existing solid block:
\* whenever update_falling_blocks_system writes a landing cell, that cell
\* was non-solid immediately before the write.
C37_LandingCellWasNotSolid ==
  [][\A p \in LogOf(log', "land") : ~is_solid_at_world_pos(World, p)]_vars

\* C38: whenever block_interaction_system places a block, the hit cell
\* adjacent to the target is still solid at the moment of the write, also
\* when break and place are both triggered in the same invocation.  The
\* placement writes the target cell only, so the hit cell is after the
\* invocation as it was at the write.
C38_PlacedAgainstSolidHit ==
  (/\ probe # NoProbe
   /\ probe.op = "interact"
   /\ LogOf(log, "place") # {})
    => is_solid_at_world_pos(World, probe.ray.hit)

\* C38, one button at a time: a placement of an invocation that broke
\* nothing stands against a solid hit cell
C38_PlacedAloneAgainstSolidHit ==
  (/\ probe # NoProbe
   /\ probe.op = "interact"
   /\ LogOf(log, "place") # {}
   /\ LogOf(log, "break") = {})
    => is_solid_at_world_pos(World, probe.ray.hit)

\* The voxel content of the loaded chunks
VoxelsOf(cs) == [coord \in DOMAIN cs |-> cs[coord].chunk]

\* C39: an interaction attempt that does not change the voxel store (no
\* hit, hit block not interactable, last_empty not face-adjacent to hit, or
\* placement rejected by the player-overlap check) leaves both cooldown
\* timestamps unchanged; a successful break changes only the break
\* timestamp and a successful placement only the place timestamp.
C39_TimestampsFollowWrites ==
  [][/\ VoxelsOf(chunks') = VoxelsOf(chunks)
          => /\ last_break_time' = last_break_time
             /\ last_place_time' = last_place_time
     /\ LogOf(log', "break") # {}
          => /\ last_break_time' = now
             /\ last_break_time' # last_break_time
             /\ (LogOf(log', "place") = {} => last_place_time' = last_place_time)
     /\ LogOf(log', "place") # {}
          => /\ last_place_time' = now
             /\ last_place_time' # last_place_time
             /\ (LogOf(log', "break") = {} => last_break_time' = last_break_time)]_vars

\* An attempt with a usable button and a hit that wrote nothing
AttemptRejected ==
  /\ probe # NoProbe
  /\ probe.op = "interact"
  /\ probe.ray.hit # NoCell
  /\ LogOf(log, "break") = {}
  /\ LogOf(log, "place") = {}

\* The right button alone on a face-adjacent pair, the placement refused by
\* the overlap with the player
C39_Witness ==
  /\ AttemptRejected
  /\ probe.right /\ ~probe.left
  /\ probe.ray.last_empty # NoCell
  /\ is_face_neighbor(probe.ray.hit, probe.ray.last_empty)
  /\ intersects_block(probe.view.player.half_size, probe.view.player.pos,
                      probe.ray.last_empty)
  /\ last_place_time = READY_TIME

\* The right button alone with no hit at all
C39_WitnessNoHit ==
  /\ probe # NoProbe
  /\ probe.op = "interact"
  /\ probe.right /\ ~probe.left
  /\ probe.ray.hit = NoCell
  /\ last_place_time = READY_TIME

\* The right button alone on a pair that is not face-adjacent
C39_WitnessNotAdjacent ==
  /\ AttemptRejected
  /\ probe.right /\ ~probe.left
  /\ probe.ray.last_empty # NoCell
  /\ ~is_face_neighbor(probe.ray.hit, probe.ray.last_empty)
  /\ last_place_time = READY_TIME

\* A break alone: the break timestamp is the clock reading, the place
\* timestamp is as constructed
C39_WitnessBreak ==
  /\ probe # NoProbe
  /\ probe.op = "interact"
  /\ LogOf(log, "break") # {}
  /\ LogOf(log, "place") = {}
  /\ last_break_time = now
  /\ last_place_time = READY_TIME

\* A placement alone
C39_WitnessPlace ==
  /\ probe # NoProbe
  /\ probe.op = "interact"
  /\ LogOf(log, "place") # {}
  /\ LogOf(log, "break") = {}
  /\ last_place_time = now
  /\ last_break_time = READY_TIME

====
